---------------------------- MODULE Spec2Model ----------------------------
(***************************************************************************)
(* Question-paper generator (src/app.py): the LLM client (discover_models, *)
(* call_gemini), the key splitter (split_key), the state-board mark        *)
(* blueprint (_compute_structure), the markup escaper (_latex_to_rl,       *)
(* _process) and the PDF element builder (create_exam_pdf).                *)
(*                                                                         *)
(* Text is a sequence of one-character strings, except where a definition  *)
(* says that it works on tokens.  Every component has its own              *)
(* specification; the variables of the other components stay idle in it.   *)
(***************************************************************************)
EXTENDS Integers, Sequences, FiniteSets, TLC

VARIABLES
    \* ---- LLM client (module globals and the per-call locals) ----
    configured,          \* GEMINI_KEY and GENAI_AVAILABLE
    _discovered_models,  \* the module global of that name
    listCalls,           \* history: number of genai.list_models() calls made
    assignCount,         \* history: number of assignments to _discovered_models
    calls,               \* history: number of call_gemini calls started
    th,                  \* per thread: the locals of call_gemini/discover_models
    \* ---- split_key ----
    text,                \* the argument (tokens, see SplitAlphabet)
    paper, key,          \* the pair returned
    splitDone,           \* split_key has returned
    \* ---- _simple_state_board / _compute_structure ----
    marks,               \* the marks argument
    structure,           \* the dict _compute_structure returns
    structDone,          \* the prompt's STRUCTURE block has been written
    \* ---- _process ----
    ptext,               \* the text argument
    pout,                \* the markup returned
    procDone,            \* _process has returned
    \* ---- create_exam_pdf ----
    paper_text,          \* the text argument
    answer_key,          \* the answer_key argument
    include_key,         \* the include_key argument
    diagrams,            \* the diagrams argument
    render,              \* what converting each SVG comes to
    lines,               \* text.split('\n')
    i_line,              \* lines of the paper read so far
    elems,               \* the flowables so far
    tbl_rows,            \* the rows of the table being read
    in_table,
    pending_opts,        \* the options not yet in a table
    in_instr,
    branch,              \* history: the branch of the loop the last line took
    key_lines,           \* answer_key.split('\n')
    ki,                  \* lines of the key read so far
    pdf_pc,              \* "start", "body", "key", "build", "done", "raised"
    \* ---- download_pdf ----
    dl_paper,            \* data["paper"]
    dl_key,              \* data["answer_key"]
    unique_descs,        \* the distinct placeholder descriptions, in order
    futures,             \* per submitted task: "queued", "running", "svg", "none", "raised", "hung"
    dl_runs,             \* history, per task: times a worker started it
    dl_collected,        \* the futures as_completed has yielded
    dl_diagrams,         \* the diagrams dict, its items in insertion order
    dl_pc,               \* "start", "pool", "assemble", "responded"
    dl_status,           \* the HTTP status of the response, 0 before it
    \* ---- generate (POST /generate), in the three revisions ----
    gen_key,             \* the API key is set (GEMINI_KEY, OPENAI_API_KEY)
    gen_lib,             \* GENAI_AVAILABLE of src/app.py
    gen_data,            \* the JSON body: each field absent, null, a string or a number
    gen_rev,             \* the revision that served the request
    gen_resp,            \* the response
    gen_llm_calls,       \* history: calls made to the LLM
    gen_prompt_built,    \* history: a prompt was built
    gen_pc,              \* "start", "done"
    \* ---- build_prompt ----
    bp_args,             \* the arguments marks, subject, board, class_name
    bp_m,                \* the total m of line 1027
    bp_template,         \* the template chosen
    bp_prompt,           \* the prompt returned, as its blocks
    bp_pc                \* idle, start or done

llmVars == <<configured, _discovered_models, listCalls, assignCount, calls, th>>
splitVars == <<text, paper, key, splitDone>>
structVars == <<marks, structure, structDone>>
procVars == <<ptext, pout, procDone>>
pdfVars == <<paper_text, answer_key, include_key, diagrams, render, lines,
             i_line, elems, tbl_rows, in_table, pending_opts, in_instr,
             branch, key_lines, ki, pdf_pc>>

dlVars == <<dl_paper, dl_key, unique_descs, futures, dl_runs, dl_collected,
            dl_diagrams, dl_pc, dl_status>>

genVars == <<gen_key, gen_lib, gen_data, gen_rev, gen_resp, gen_llm_calls,
             gen_prompt_built, gen_pc>>

bpVars == <<bp_args, bp_m, bp_template, bp_prompt, bp_pc>>

vars == <<llmVars, splitVars, structVars, procVars, pdfVars, dlVars, genVars,
          bpVars>>

\* the variables each component leaves alone
nonLLM == <<splitVars, structVars, procVars, pdfVars, dlVars, genVars,
            bpVars>>
nonSplit == <<llmVars, structVars, procVars, pdfVars, dlVars, genVars,
              bpVars>>
nonStruct == <<llmVars, splitVars, procVars, pdfVars, dlVars, genVars,
               bpVars>>
nonProc == <<llmVars, splitVars, structVars, pdfVars, dlVars, genVars,
             bpVars>>
nonPdf == <<llmVars, splitVars, structVars, procVars, dlVars, genVars,
            bpVars>>
nonDl == <<llmVars, splitVars, structVars, procVars, pdfVars, genVars,
           bpVars>>
nonGen == <<llmVars, splitVars, structVars, procVars, pdfVars, dlVars,
            bpVars>>
nonBp == <<llmVars, splitVars, structVars, procVars, pdfVars, dlVars,
           genVars>>

(***************************************************************************)
(* Bounds                                                                  *)
(***************************************************************************)
MaxListed == 2      \* longest list genai.list_models() returns
MaxTextLen == 5     \* longest text given to split_key, in tokens
MaxCalls  == 2      \* call_gemini calls per run
MaxMarks  == 120    \* largest marks value given to _compute_structure
MaxProcLen == 4     \* characters in a text given to _process
MaxPaperLines == 2  \* lines in a paper given to create_exam_pdf
MaxDiagrams == 2    \* entries in the diagrams dict
MaxOptionLines == 6 \* lines in a paper of option lines
MaxInstrLines == 3  \* lines in a paper of instructions
MaxTableLines == 3  \* lines in a paper of table rows
MaxHeadingLines == 1 \* lines in a paper of headings
NWorkers  == 2      \* threads of the concurrent specification

(***************************************************************************)
(* Strings                                                                 *)
(***************************************************************************)
IsWS(c) == c \in {" ", "\n", "\t"}

RECURSIVE LStrip(_)
\* str.lstrip(): drop leading whitespace
LStrip(s) ==
    IF s = <<>> THEN <<>>
    ELSE IF IsWS(Head(s)) THEN LStrip(Tail(s)) ELSE s

RECURSIVE RStrip(_)
\* str.rstrip(): drop trailing whitespace
RStrip(s) ==
    IF s = <<>> THEN <<>>
    ELSE IF IsWS(s[Len(s)]) THEN RStrip(SubSeq(s, 1, Len(s) - 1)) ELSE s

\* str.strip()
Strip(s) == RStrip(LStrip(s))

\* s[i:] and s[:i] of Python, on 1-based sequences: the part from position i on
From(s, i) == SubSeq(s, i, Len(s))

\* p is a contiguous part of n:  p in n
IsSub(p, n) ==
    \E i \in 1..(Len(n) - Len(p) + 1) : SubSeq(n, i, i + Len(p) - 1) = p

Range(s) == {s[i] : i \in 1..Len(s)}

(***************************************************************************)
(* Model names.  A name is a sequence of tokens: "gemini-2.0-flash-exp" is *)
(* <<"gemini","2.0","flash","exp">>, the dashes between tokens implied, so *)
(* that  p in n  is IsSub(p, n).  list_models reports "models/<name>".     *)
(***************************************************************************)
G20F   == <<"gemini", "2.0", "flash">>
G20FE  == <<"gemini", "2.0", "flash", "exp">>
G15F   == <<"gemini", "1.5", "flash">>
G15P   == <<"gemini", "1.5", "pro">>
GPRO   == <<"gemini", "pro">>
GEMMA  == <<"gemma", "3">>
EMBED  == <<"embedding", "001">>

\* line 855
preferred == <<G20F, G15F, G15P, GPRO, G20FE>>

\* line 861
fallback_models == <<G20F, G15F, GPRO, G20FE>>

\* what the remote service may report about one model: m.name and
\* m.supported_generation_methods
RemoteModels ==
    { [name |-> <<"models/">> \o G20FE, methods |-> {"generateContent"}],
      [name |-> <<"models/">> \o GPRO,  methods |-> {"generateContent"}],
      [name |-> <<"models/">> \o GEMMA, methods |-> {"generateContent"}],
      [name |-> <<"models/">> \o EMBED, methods |-> {"embedContent"}] }

RECURSIVE SeqsUpTo(_, _)
SeqsUpTo(S, n) ==
    IF n = 0 THEN {<<>>}
    ELSE LET shorter == SeqsUpTo(S, n - 1)
         IN  shorter \cup {Append(s, x) : s \in shorter, x \in S}

\* the lists genai.list_models() may return
RemoteLists == SeqsUpTo(RemoteModels, MaxListed)

RECURSIVE ReplaceTok(_, _)
\* m.name.replace("models/", ""): every occurrence of the token removed
ReplaceTok(n, tok) ==
    IF n = <<>> THEN <<>>
    ELSE (IF Head(n) = tok THEN <<>> ELSE <<Head(n)>>) \o ReplaceTok(Tail(n), tok)

RECURSIVE GenerateNames(_)
\* lines 851-854: the names of the listed models that support generateContent
GenerateNames(listed) ==
    IF listed = <<>> THEN <<>>
    ELSE (IF "generateContent" \in Head(listed).methods
          THEN <<ReplaceTok(Head(listed).name, "models/")>> ELSE <<>>)
         \o GenerateNames(Tail(listed))

RECURSIVE Ordered(_, _)
\* line 856: [p for p in preferred if any(p in n for n in models)]
Ordered(prefs, models) ==
    IF prefs = <<>> THEN <<>>
    ELSE (IF \E i \in 1..Len(models) : IsSub(Head(prefs), models[i])
          THEN <<Head(prefs)>> ELSE <<>>)
         \o Ordered(Tail(prefs), models)

RECURSIVE Rest(_)
\* line 857: [n for n in models if not any(p in n for p in preferred)]
Rest(models) ==
    IF models = <<>> THEN <<>>
    ELSE (IF \E j \in 1..Len(preferred) : IsSub(preferred[j], Head(models))
          THEN <<>> ELSE <<Head(models)>>)
         \o Rest(Tail(models))

(***************************************************************************)
(* Error messages of the LLM call, as token sequences;  "429" in err  is   *)
(* membership of the token.                                                *)
(***************************************************************************)
Errs ==
    { <<"429", "Too", "Many", "Requests">>,
      <<"404", "model", "not", "found">>,
      <<"Quota", "exceeded">>,
      <<"Deadline", "Exceeded">> }

\* str.lower() on the tokens above
LowerTok(w) ==
    CASE w = "Quota"    -> "quota"
      [] w = "Too"      -> "too"
      [] w = "Many"     -> "many"
      [] w = "Requests" -> "requests"
      [] w = "Deadline" -> "deadline"
      [] w = "Exceeded" -> "exceeded"
      [] OTHER          -> w

Lower(err) == [i \in 1..Len(err) |-> LowerTok(err[i])]

\* line 885 with the .lower() forgotten
IsRateOrNotFoundCaseSensitive(err) ==
    \/ "429" \in Range(err)
    \/ "404" \in Range(err)
    \/ "quota" \in Range(err)

\* line 885
IsRateOrNotFound(err) ==
    \/ "429" \in Range(err)
    \/ "404" \in Range(err)
    \/ "quota" \in Range(Lower(err))

\* response.text values the service may answer with (characters)
Responses == { <<" ", "\n">>, <<" ", "Q", "\n">> }

\* messages: the f-strings of lines 866, 869, 880, 884 as records; the initial
\* last_error of line 870 is the blank message
Msg(kind, model, attempt, err) ==
    [kind |-> kind, model |-> model, attempt |-> attempt, err |-> err]
BlankMsg      == Msg("blank", <<>>, 0, <<>>)
NotConfigured == Msg("Gemini not configured.", <<>>, 0, <<>>)
NoModels      == Msg("No Gemini models discovered.", <<>>, 0, <<>>)
EmptyMsg(model)          == Msg("empty response", model, 0, <<>>)
ExcMsg(model, attempt, err) == Msg("exception", model, attempt + 1, err)

\* the pair call_gemini returns: (text, None) or (None, message)
Ok(body)  == [none |-> FALSE, text |-> body, error |-> BlankMsg, errNone |-> TRUE]
Fail(msg) == [none |-> TRUE,  text |-> <<>>, error |-> msg,      errNone |-> FALSE]
NoResult  == [none |-> TRUE,  text |-> <<>>, error |-> BlankMsg, errNone |-> TRUE]

\* a thread between two calls; caller is the handler it runs next:
\* "call_gemini" or "health"
Idle ==
    [pc |-> "idle", caller |-> "none", models |-> <<>>, models_to_try |-> <<>>,
     mi |-> 0, attempt |-> 0, last_error |-> BlankMsg, result |-> NoResult,
     log |-> <<>>]

(***************************************************************************)
(* discover_models, lines 843-861, in the steps another thread can         *)
(* interleave with: the test of the global, the remote call, the           *)
(* assignment.  AfterDiscover is what the caller does with the list:       *)
(* call_gemini's lines 867-870, health's lines 3129-3132.                  *)
(***************************************************************************)
AfterDiscover(r, found) ==
    IF r.caller = "health"
    THEN [r EXCEPT !.pc = "done", !.models_to_try = found]
    ELSE IF found = <<>>
    THEN [r EXCEPT !.pc = "done", !.result = Fail(NoModels)]
    ELSE [r EXCEPT !.pc = "loop", !.models_to_try = found, !.mi = 1,
                   !.attempt = 0, !.last_error = BlankMsg]

\* lines 864-867 and 845-848
CallStart(t) ==
    /\ th[t].pc = "idle"
    /\ calls < MaxCalls
    /\ calls' = calls + 1
    /\ IF ~configured
       THEN th' = [th EXCEPT ![t] = [Idle EXCEPT !.pc = "done",
                            !.caller = "call_gemini",
                            !.result = Fail(NotConfigured)]]
       ELSE LET r == [Idle EXCEPT !.caller = "call_gemini"]
            IN  IF _discovered_models # <<>>
                THEN th' = [th EXCEPT ![t] = AfterDiscover(r, _discovered_models)]
                ELSE th' = [th EXCEPT ![t] = [r EXCEPT !.pc = "list"]]
    /\ UNCHANGED <<configured, _discovered_models, listCalls, assignCount>>
    /\ UNCHANGED nonLLM

\* health, lines 3127-3129, and 845-848
HealthStart(t) ==
    /\ th[t].pc = "idle"
    /\ calls < MaxCalls
    /\ calls' = calls + 1
    /\ LET r == [Idle EXCEPT !.caller = "health"]
       IN  IF ~configured
           THEN th' = [th EXCEPT ![t] = AfterDiscover(r, <<>>)]
           ELSE IF _discovered_models # <<>>
           THEN th' = [th EXCEPT ![t] = AfterDiscover(r, _discovered_models)]
           ELSE th' = [th EXCEPT ![t] = [r EXCEPT !.pc = "list"]]
    /\ UNCHANGED <<configured, _discovered_models, listCalls, assignCount>>
    /\ UNCHANGED nonLLM

\* lines 849-857 and 860-861: the remote call; it raises or returns a list
ListModels(t) ==
    /\ th[t].pc = "list"
    /\ listCalls' = listCalls + 1
    /\ \/ th' = [th EXCEPT ![t] = AfterDiscover(th[t], fallback_models)]
       \/ \E listed \in RemoteLists :
             th' = [th EXCEPT ![t] = [th[t] EXCEPT
                        !.pc = "assign", !.models = GenerateNames(listed)]]
    /\ UNCHANGED <<configured, _discovered_models, assignCount, calls>>
    /\ UNCHANGED nonLLM

\* lines 858-859
AssignDiscovered(t) ==
    /\ th[t].pc = "assign"
    /\ LET found == Ordered(preferred, th[t].models) \o Rest(th[t].models)
       IN  /\ _discovered_models' = found
           /\ th' = [th EXCEPT ![t] = AfterDiscover(th[t], found)]
    /\ assignCount' = assignCount + 1
    /\ UNCHANGED <<configured, listCalls, calls>>
    /\ UNCHANGED nonLLM

(***************************************************************************)
(* call_gemini, lines 871-890: one generate_content attempt                *)
(***************************************************************************)
\* the break of lines 881, 886, 889: on to the next candidate, or line 890
NextCandidate(r) ==
    IF r.mi < Len(r.models_to_try)
    THEN [r EXCEPT !.mi = r.mi + 1, !.attempt = 0]
    ELSE [r EXCEPT !.pc = "done", !.result = Fail(r.last_error)]

\* history: the attempt just made, its response text or its error message
Logged(r, outcome, body, err) ==
    [r EXCEPT !.log = Append(r.log,
        [cand |-> r.mi, model |-> r.models_to_try[r.mi], attempt |-> r.attempt,
         outcome |-> outcome, text |-> body, err |-> err])]

\* lines 877-881 with both .strip() calls forgotten
RespondedUnstripped(r, body) ==
    IF body # <<>>
    THEN [Logged(r, "text", body, <<>>) EXCEPT !.pc = "done", !.result = Ok(body)]
    ELSE NextCandidate([Logged(r, "empty", body, <<>>) EXCEPT
             !.last_error = EmptyMsg(r.models_to_try[r.mi])])

\* lines 877-881: generate_content returned
Responded(r, body) ==
    IF Strip(body) # <<>>
    THEN [Logged(r, "text", body, <<>>) EXCEPT
             !.pc = "done", !.result = Ok(Strip(body))]
    ELSE NextCandidate([Logged(r, "empty", body, <<>>) EXCEPT
             !.last_error = EmptyMsg(r.models_to_try[r.mi])])

\* lines 882-889: generate_content raised
Raised(r, err) ==
    LET r1 == [Logged(r, "raised", <<>>, err)
                  EXCEPT !.last_error =
                      ExcMsg(r.models_to_try[r.mi], r.attempt, err)]
    IN  IF IsRateOrNotFound(err) THEN NextCandidate(r1)
        ELSE IF r.attempt = 0 THEN [r1 EXCEPT !.attempt = 1]
        ELSE NextCandidate(r1)

Attempt(t) ==
    /\ th[t].pc = "loop"
    /\ \/ \E body \in Responses : th' = [th EXCEPT ![t] = Responded(th[t], body)]
       \/ \E err \in Errs : th' = [th EXCEPT ![t] = Raised(th[t], err)]
    /\ UNCHANGED <<configured, _discovered_models, listCalls, assignCount, calls>>
    /\ UNCHANGED nonLLM

\* the caller has the pair; the thread serves the next call
Return(t) ==
    /\ th[t].pc = "done"
    /\ calls < MaxCalls
    /\ th' = [th EXCEPT ![t] = Idle]
    /\ UNCHANGED <<configured, _discovered_models, listCalls, assignCount, calls>>
    /\ UNCHANGED nonLLM

\* a /health request: discover_models and nothing else
HealthStep(t) ==
    \/ HealthStart(t)
    \/ ListModels(t)
    \/ AssignDiscovered(t)
    \/ Return(t)

ThreadStep(t) ==
    \/ CallStart(t)
    \/ HealthStart(t)
    \/ ListModels(t)
    \/ AssignDiscovered(t)
    \/ Attempt(t)
    \/ Return(t)

\* after import: line 36 has read the key, line 841 has set the global
InitLLM ==
    /\ configured \in BOOLEAN
    /\ _discovered_models = <<>>
    /\ listCalls = 0
    /\ assignCount = 0
    /\ calls = 0
    /\ th = [t \in 1..NWorkers |-> Idle]

\* the LLM client where a specification does not use it
IdleLLM ==
    /\ configured = FALSE
    /\ _discovered_models = <<>>
    /\ listCalls = 0
    /\ assignCount = 0
    /\ calls = 0
    /\ th = [t \in 1..NWorkers |-> Idle]

\* split_key where a specification does not use it
IdleSplit ==
    /\ text = <<>>
    /\ paper = <<>>
    /\ key = <<>>
    /\ splitDone = FALSE

\* _compute_structure where a specification does not use it
IdleStruct ==
    /\ marks = 0
    /\ structure = <<>>
    /\ structDone = FALSE

\* _process where a specification does not use it
IdleProc ==
    /\ ptext = <<>>
    /\ pout = <<>>
    /\ procDone = FALSE

\* create_exam_pdf where a specification does not use it
IdlePdf ==
    /\ paper_text = <<>>
    /\ answer_key = <<>>
    /\ include_key = FALSE
    /\ diagrams = <<>>
    /\ render = <<>>
    /\ lines = <<>>
    /\ i_line = 0
    /\ elems = <<>>
    /\ tbl_rows = <<>>
    /\ in_table = FALSE
    /\ pending_opts = <<>>
    /\ in_instr = FALSE
    /\ branch = "none"
    /\ key_lines = <<>>
    /\ ki = 0
    /\ pdf_pc = "idle"

\* download_pdf where a specification does not use it
IdleDl ==
    /\ dl_paper = <<>>
    /\ dl_key = <<>>
    /\ unique_descs = <<>>
    /\ futures = <<>>
    /\ dl_runs = <<>>
    /\ dl_collected = {}
    /\ dl_diagrams = <<>>
    /\ dl_pc = "idle"
    /\ dl_status = 0

\* generate (POST /generate), in the three revisions where a specification does not use it
IdleGen ==
    /\ gen_key = FALSE
    /\ gen_lib = FALSE
    /\ gen_data = <<>>
    /\ gen_rev = "none"
    /\ gen_resp = <<>>
    /\ gen_llm_calls = 0
    /\ gen_prompt_built = FALSE
    /\ gen_pc = "idle"

\* build_prompt where a specification does not use it
IdleBp ==
    /\ bp_args = <<>>
    /\ bp_m = 0
    /\ bp_template = "none"
    /\ bp_prompt = <<>>
    /\ bp_pc = "idle"

Init == InitLLM /\ IdleSplit /\ IdleStruct /\ IdleProc /\ IdlePdf /\ IdleDl /\ IdleGen /\ IdleBp

\* one request thread, its calls one after the other
Next == ThreadStep(1)

Spec == Init /\ [][Next]_vars

\* request threads that run discover_models at the same time
NextWorkers == \E t \in 1..NWorkers : HealthStep(t)

SpecWorkers == Init /\ [][NextWorkers]_vars

(***************************************************************************)
(* split_key, lines 2366-2372.  The text is a sequence of tokens: a token  *)
(* is a newline, a space, an ordinary character "x", a colon, the rule     *)
(* "---", the phrase "ANSWER KEY" as the patterns spell it, or the phrase  *)
(* in another case ("Answer Key").  The three patterns begin with a        *)
(* newline and spell the rule and the phrase whole, so a match of a        *)
(* pattern in the characters is a match in the tokens.                     *)
(***************************************************************************)
SplitAlphabet == {"\n", " ", "x", ":", "---", "ANSWER KEY", "Answer Key"}

Texts == SeqsUpTo(SplitAlphabet, MaxTextLen)

\* s[i], or a token that is in no pattern when i is past the end
At(s, i) == IF i \in 1..Len(s) THEN s[i] ELSE "$"

RECURSIVE WsRunEnd(_, _)
\* the greedy \s* from position i: the first position it does not take
WsRunEnd(s, i) ==
    IF i <= Len(s) /\ IsWS(s[i]) THEN WsRunEnd(s, i + 1) ELSE i

\* the last newline among positions lo..hi-1, or 0
LastNewline(s, lo, hi) ==
    LET nl == {k \in lo..(hi - 1) : s[k] = "\n"}
    IN  IF nl = {} THEN 0 ELSE CHOOSE k \in nl : \A m \in nl : m <= k

\* r'\nANSWER KEY\n' matched at position i: the position after the match, or 0
MatchEnd1(s, i) ==
    IF At(s, i) = "\n" /\ At(s, i + 1) = "ANSWER KEY" /\ At(s, i + 2) = "\n"
    THEN i + 3 ELSE 0

\* r'\n---\s*ANSWER KEY\s*---\n' matched at position i
MatchEnd2(s, i) ==
    IF At(s, i) = "\n" /\ At(s, i + 1) = "---"
    THEN LET j == WsRunEnd(s, i + 2)
             k == WsRunEnd(s, j + 1)
         IN  IF At(s, j) = "ANSWER KEY" /\ At(s, k) = "---" /\ At(s, k + 1) = "\n"
             THEN k + 2 ELSE 0
    ELSE 0

\* r'(?i)\nANSWER KEY:?\s*\n' matched at position i: the greedy \s* gives
\* back as far as the last newline it took
MatchEnd3(s, i) ==
    IF At(s, i) = "\n" /\ At(s, i + 1) \in {"ANSWER KEY", "Answer Key"}
    THEN LET j == IF At(s, i + 2) = ":" THEN i + 3 ELSE i + 2
             nl == LastNewline(s, j, WsRunEnd(s, j))
         IN  IF nl = 0 THEN 0 ELSE nl + 1
    ELSE 0

MatchEnd(pat, s, i) ==
    CASE pat = 1 -> MatchEnd1(s, i)
      [] pat = 2 -> MatchEnd2(s, i)
      [] pat = 3 -> MatchEnd3(s, i)

\* the leftmost match of the pattern: where it starts, or 0
FindFirst(pat, s) ==
    LET hits == {i \in 1..Len(s) : MatchEnd(pat, s, i) # 0}
    IN  IF hits = {} THEN 0 ELSE CHOOSE i \in hits : \A m \in hits : i <= m

\* line 2371 with parts[0] cut at the end of the match instead of its start
SplitAtKeepingMarker(pat, s) ==
    LET i == FindFirst(pat, s)
    IN  <<Strip(SubSeq(s, 1, MatchEnd(pat, s, i) - 1)),
          Strip(From(s, MatchEnd(pat, s, i)))>>

\* line 2369-2371 for one pattern: re.split(pat, text, maxsplit=1), stripped
SplitAt(pat, s) ==
    LET i == FindFirst(pat, s)
    IN  <<Strip(SubSeq(s, 1, i - 1)), Strip(From(s, MatchEnd(pat, s, i)))>>

\* the loop of lines 2367-2372 with the case-insensitive pattern tried first
split_key_LoosePatternFirst(s) ==
    IF FindFirst(3, s) # 0 THEN SplitAt(3, s)
    ELSE IF FindFirst(1, s) # 0 THEN SplitAt(1, s)
    ELSE IF FindFirst(2, s) # 0 THEN SplitAt(2, s)
    ELSE <<Strip(s), <<>>>>

\* line 2372 with the .strip() forgotten
split_key_Unstripped(s) ==
    IF FindFirst(1, s) # 0 THEN SplitAt(1, s)
    ELSE IF FindFirst(2, s) # 0 THEN SplitAt(2, s)
    ELSE IF FindFirst(3, s) # 0 THEN SplitAt(3, s)
    ELSE <<s, <<>>>>

\* lines 2366-2372
split_key(s) ==
    IF FindFirst(1, s) # 0 THEN SplitAt(1, s)
    ELSE IF FindFirst(2, s) # 0 THEN SplitAt(2, s)
    ELSE IF FindFirst(3, s) # 0 THEN SplitAt(3, s)
    ELSE <<Strip(s), <<>>>>

SplitKey ==
    /\ ~splitDone
    /\ paper' = split_key(text)[1]
    /\ key' = split_key(text)[2]
    /\ splitDone' = TRUE
    /\ UNCHANGED text
    /\ UNCHANGED nonSplit

InitSplit ==
    /\ text \in Texts
    /\ paper = <<>>
    /\ key = <<>>
    /\ splitDone = FALSE
    /\ IdleLLM /\ IdleStruct /\ IdleProc /\ IdlePdf /\ IdleDl /\ IdleGen /\ IdleBp

NextSplit == SplitKey

SpecSplit == InitSplit /\ [][NextSplit]_vars

(***************************************************************************)
(* Claims about split_key.  What a marker is, is said here apart from the  *)
(* matching above: a newline, a marker line, a newline.                    *)
(***************************************************************************)
AllWS(s) == \A i \in 1..Len(s) : IsWS(s[i])

\* a newline, the line ANSWER KEY, a newline
IsMarker1(m) == m = <<"\n", "ANSWER KEY", "\n">>

\* a newline, --- ANSWER KEY --- with any white space around the phrase, a
\* newline
IsMarker2(m) ==
    /\ Len(m) >= 5
    /\ m[1] = "\n" /\ m[2] = "---" /\ m[Len(m) - 1] = "---" /\ m[Len(m)] = "\n"
    /\ \E k \in 3..(Len(m) - 2) :
          /\ m[k] = "ANSWER KEY"
          /\ AllWS(SubSeq(m, 3, k - 1))
          /\ AllWS(SubSeq(m, k + 1, Len(m) - 2))

\* a newline, the phrase in any case, an optional colon, white space, a newline
IsMarker3(m) ==
    /\ Len(m) >= 3
    /\ m[1] = "\n" /\ m[2] \in {"ANSWER KEY", "Answer Key"} /\ m[Len(m)] = "\n"
    /\ LET mid == SubSeq(m, 3, Len(m) - 1)
       IN  \/ AllWS(mid)
           \/ mid # <<>> /\ mid[1] = ":" /\ AllWS(Tail(mid))

IsMarkerOf(pat, m) ==
    CASE pat = 1 -> IsMarker1(m)
      [] pat = 2 -> IsMarker2(m)
      [] pat = 3 -> IsMarker3(m)

\* where a marker of the variant starts in the text
MarkerStartsOf(pat, s) ==
    {i \in 1..Len(s) : \E j \in i..Len(s) : IsMarkerOf(pat, SubSeq(s, i, j))}

MarkerStarts(s) == UNION {MarkerStartsOf(pat, s) : pat \in 1..3}

MinOf(S) == CHOOSE i \in S : \A m \in S : i <= m

\* the pair is the text cut at a marker of the variant that starts at i, both
\* parts trimmed
CutAt(pat, i) ==
    /\ paper = Strip(SubSeq(text, 1, i - 1))
    /\ \E j \in i..Len(text) :
          /\ IsMarkerOf(pat, SubSeq(text, i, j))
          /\ key = Strip(From(text, j + 1))

\* C4 as claimed: with exactly one marker in the text, paper followed by the
\* marker followed by key is the text again.
C4_Reconstructs ==
    (splitDone /\ Cardinality(MarkerStarts(text)) = 1) =>
        \E i \in 1..Len(text) : \E j \in i..Len(text) :
            /\ \E pat \in 1..3 : IsMarkerOf(pat, SubSeq(text, i, j))
            /\ paper \o SubSeq(text, i, j) \o key = text

\* C4 as amended: with exactly one marker in the text, paper is the text
\* before the marker and key the text after it, each with the white space at
\* its two ends trimmed: only white space next to the marker or at the ends
\* of the text is lost.
C4_ReconstructsUpToTrim ==
    (splitDone /\ Cardinality(MarkerStarts(text)) = 1) =>
        \E pat \in 1..3 : \E i \in MarkerStartsOf(pat, text) : CutAt(pat, i)

\* a text with one marker and a key after it, that lost white space
C4_Witness ==
    /\ splitDone /\ Cardinality(MarkerStarts(text)) = 1
    /\ key # <<>>
    /\ Len(paper) + Len(key) + 3 < Len(text)

\* C5: when no marker pattern matches, split_key returns the trimmed whole
\* text as paper and an empty key.
C5_NoMarkerWholeText ==
    (splitDone /\ MarkerStarts(text) = {}) =>
        (paper = Strip(text) /\ key = <<>>)

\* a text whose first line is ANSWER KEY, with no newline before it, and
\* that ends in white space
C5_Witness ==
    /\ splitDone /\ MarkerStarts(text) = {}
    /\ Len(text) >= 3 /\ text[1] = "ANSWER KEY" /\ text[2] = "\n"
    /\ paper # text

\* C6 as claimed: with more than one marker in the text, the split is at
\* the earliest marker, whatever its variant.
C6_SplitsAtEarliestMarker ==
    (splitDone /\ Cardinality(MarkerStarts(text)) >= 2) =>
        \E pat \in 1..3 :
            /\ MinOf(MarkerStarts(text)) \in MarkerStartsOf(pat, text)
            /\ CutAt(pat, MinOf(MarkerStarts(text)))

\* the first variant, in the order of the pattern list, that occurs in s
FirstVariant(s) == MinOf({pat \in 1..3 : MarkerStartsOf(pat, s) # {}})

\* C6 as amended: with more than one marker in the text, the split is at
\* the earliest marker of the first variant, in the order of the pattern
\* list, that occurs in the text; an earlier marker of a later variant stays
\* inside paper.
C6_SplitsAtFirstVariant ==
    (splitDone /\ Cardinality(MarkerStarts(text)) >= 2) =>
        CutAt(FirstVariant(text), MinOf(MarkerStartsOf(FirstVariant(text), text)))

\* two markers, the earlier one of a later variant: it stays in paper
C6_Witness ==
    /\ splitDone /\ Cardinality(MarkerStarts(text)) >= 2
    /\ MinOf(MarkerStarts(text)) < MinOf(MarkerStartsOf(FirstVariant(text), text))
    /\ "Answer Key" \in Range(paper)

(***************************************************************************)
(* _compute_structure, lines 1060-1109, and the STRUCTURE block that       *)
(* _simple_state_board writes from it, lines 1120-1155.                    *)
(***************************************************************************)
Max(a, b) == IF a >= b THEN a ELSE b

\* round(x * num / den) of Python 3: to the nearest integer, a tie to the
\* even one.  The code multiplies by the float 0.20, 0.50, 0.25, 0.30; for
\* the integers x of this model the float product rounds as the exact one.
PyRound(x, num, den) ==
    LET q == (x * num) \div den
        r == (x * num) % den
    IN  IF 2 * r < den THEN q
        ELSE IF 2 * r > den THEN q + 1
        ELSE IF q % 2 = 0 THEN q ELSE q + 1

\* line 1062
MinMarks == 10

\* lines 1060-1109
_compute_structure(mk) ==
    LET m           == Max(MinMarks, mk)
        partA       == PyRound(m, 20, 100)
        partB       == m - partA
        mcq_marks   == PyRound(partA, 50, 100)
        fill_marks  == PyRound(partA, 25, 100)
        match_marks == partA - mcq_marks - fill_marks
        n_mcq       == mcq_marks
        n_fill      == fill_marks
        n_match     == Max(2, match_marks)
        vsq_marks   == PyRound(partB, 25, 100)
        sa_marks    == PyRound(partB, 20, 100)
        la_marks    == PyRound(partB, 30, 100)
        app_marks   == partB - vsq_marks - sa_marks - la_marks
        n_vsq       == Max(2, vsq_marks \div 2)
        n_sa_att    == Max(2, sa_marks \div 4)
        n_sa_given  == n_sa_att + 2
        n_la_att    == Max(1, la_marks \div 6)
        n_la_given  == n_la_att + 2
        marks_per_app == IF app_marks >= 10 THEN 10
                         ELSE IF app_marks >= 8 THEN 8
                         ELSE Max(4, (app_marks \div 2) * 2)
        n_app_att   == Max(1, app_marks \div marks_per_app)
        n_app_given == n_app_att + 1
        actual_vsq  == n_vsq * 2
        actual_sa   == n_sa_att * 4
        actual_la   == n_la_att * 6
        actual_app  == n_app_att * marks_per_app
        actual_partB == actual_vsq + actual_sa + actual_la + actual_app
        actual_total == partA + actual_partB
    IN  [m |-> m, partA |-> partA, partB |-> actual_partB, total |-> actual_total,
         n_mcq |-> n_mcq, n_fill |-> n_fill, n_match |-> n_match,
         mcq_marks |-> mcq_marks, fill_marks |-> fill_marks,
         match_marks |-> match_marks,
         n_vsq |-> n_vsq, vsq_total |-> actual_vsq,
         n_sa_given |-> n_sa_given, n_sa_att |-> n_sa_att, sa_total |-> actual_sa,
         n_la_given |-> n_la_given, n_la_att |-> n_la_att, la_total |-> actual_la,
         n_app_given |-> n_app_given, n_app_att |-> n_app_att,
         marks_per_app |-> marks_per_app, app_total |-> actual_app,
         iv_start |-> 1, iv_end |-> n_vsq,
         v_start |-> n_vsq + 1, v_end |-> n_vsq + n_sa_given,
         vi_start |-> n_vsq + n_sa_given + 1,
         vi_end |-> n_vsq + n_sa_given + n_la_given,
         vii_start |-> n_vsq + n_sa_given + n_la_given + 1,
         vii_end |-> n_vsq + n_sa_given + n_la_given + n_app_given]

\* lines 1120-1155: the numbers of the STRUCTURE block are the dict's
_simple_state_board ==
    /\ ~structDone
    /\ structure' = _compute_structure(marks)
    /\ structDone' = TRUE
    /\ UNCHANGED marks
    /\ UNCHANGED nonStruct

\* the marks a request may ask for
InitStruct ==
    /\ marks \in 0..MaxMarks
    /\ structure = <<>>
    /\ structDone = FALSE
    /\ IdleLLM /\ IdleSplit /\ IdleProc /\ IdlePdf /\ IdleDl /\ IdleGen /\ IdleBp

NextStruct == _simple_state_board

SpecStruct == InitStruct /\ [][NextStruct]_vars

\* C7: for every requested total m >= 10 the sub-totals of Sections I-VII
\* stated in the prompt sum to m.
C7_SubtotalsSumToRequested ==
    (structDone /\ marks >= MinMarks) =>
        structure.mcq_marks + structure.fill_marks + structure.match_marks
          + structure.vsq_total + structure.sa_total + structure.la_total
          + structure.app_total = marks

\* lines 1144-1145, 1149-1152: the sections whose questions the prompt
\* counts, each with its count, its stated range and its stated marks per
\* question and in all (Section V to VII: the questions to attempt)
StatedSections(s) ==
    << [n |-> s.n_mcq, first |-> 1, last |-> s.n_mcq,
        counted |-> s.n_mcq, each |-> 1, stated |-> s.mcq_marks],
       [n |-> s.n_fill, first |-> s.n_mcq + 1, last |-> s.n_mcq + s.n_fill,
        counted |-> s.n_fill, each |-> 1, stated |-> s.fill_marks],
       [n |-> s.n_vsq, first |-> s.iv_start, last |-> s.iv_end,
        counted |-> s.n_vsq, each |-> 2, stated |-> s.vsq_total],
       [n |-> s.n_sa_given, first |-> s.v_start, last |-> s.v_end,
        counted |-> s.n_sa_att, each |-> 4, stated |-> s.sa_total],
       [n |-> s.n_la_given, first |-> s.vi_start, last |-> s.vi_end,
        counted |-> s.n_la_att, each |-> 6, stated |-> s.la_total],
       [n |-> s.n_app_given, first |-> s.vii_start, last |-> s.vii_end,
        counted |-> s.n_app_att, each |-> s.marks_per_app, stated |-> s.app_total] >>

\* C29: for every m >= 10 the structure is well-formed: every section has at
\* least 1 question, every stated range has start <= end, the ranges of
\* Sections IV-VII follow one another without gap or overlap, and the marks
\* stated for a section are its count times its marks per question.
C29_StructureWellFormed ==
    (structDone /\ marks >= MinMarks) =>
        LET WellFormed(secs) ==
                /\ \A k \in 1..Len(secs) :
                      /\ secs[k].n >= 1 /\ secs[k].counted >= 1
                      /\ secs[k].first <= secs[k].last
                      /\ secs[k].last - secs[k].first + 1 = secs[k].n
                      /\ secs[k].stated = secs[k].counted * secs[k].each
                /\ \A k \in 4..Len(secs) : secs[k].first = secs[k - 1].last + 1
        IN  WellFormed(StatedSections(structure))

(***************************************************************************)
(* _process, lines 210-234, with _latex_to_rl, lines 144-207, and          *)
(* _extract_braced, lines 131-141.  A text is a sequence of characters.    *)
(* The texts drawn hold no backslash, so the statements that rewrite       *)
(* backslash commands (lines 146-151, 155-170, 183-200, 211-213) leave     *)
(* them as they are.                                                       *)
(***************************************************************************)
AMP == <<"&", "a", "m", "p", ";">>
LT == <<"&", "l", "t", ";">>
GT == <<"&", "g", "t", ";">>
SUPER_OPEN == <<"<", "s", "u", "p", "e", "r", ">">>
SUPER_CLOSE == <<"<", "/", "s", "u", "p", "e", "r", ">">>
SUB_OPEN == <<"<", "s", "u", "b", ">">>
SUB_CLOSE == <<"<", "/", "s", "u", "b", ">">>
B_OPEN == <<"<", "b", ">">>
B_CLOSE == <<"<", "/", "b", ">">>
I_OPEN == <<"<", "i", ">">>
I_CLOSE == <<"<", "/", "i", ">">>

\* s[i:].startswith(p), i counted from 1
StartsWithAt(s, i, p) ==
    /\ i >= 1
    /\ i + Len(p) - 1 <= Len(s)
    /\ SubSeq(s, i, i + Len(p) - 1) = p

RECURSIVE ReplaceChar(_, _, _)
\* s.replace(c, r) for a single character c
ReplaceChar(s, c, r) ==
    IF s = <<>> THEN <<>>
    ELSE (IF Head(s) = c THEN r ELSE <<Head(s)>>) \o ReplaceChar(Tail(s), c, r)

RECURSIVE LStripCh(_, _)
\* s.lstrip(c)
LStripCh(s, c) ==
    IF s # <<>> /\ Head(s) = c THEN LStripCh(Tail(s), c) ELSE s

RECURSIVE RStripCh(_, _)
\* s.rstrip(c)
RStripCh(s, c) ==
    IF s # <<>> /\ s[Len(s)] = c THEN RStripCh(SubSeq(s, 1, Len(s) - 1), c) ELSE s

RECURSIVE CollapseSpaces(_, _)
\* re.sub(r'  +', ' ', s), line 206: of a run of spaces only the first stays
CollapseSpaces(s, i) ==
    IF i > Len(s) THEN <<>>
    ELSE (IF s[i] = " " /\ i > 1 /\ s[i - 1] = " " THEN <<>> ELSE <<s[i]>>)
         \o CollapseSpaces(s, i + 1)

RECURSIVE BraceScan(_, _, _, _)
\* lines 134-141: the while loop looking for the brace that closes s[pos]
BraceScan(s, pos, i, depth) ==
    IF i > Len(s) THEN <<SubSeq(s, pos + 1, Len(s)), Len(s) + 1>>
    ELSE LET d == IF s[i] = "{" THEN depth + 1
                  ELSE IF s[i] = "}" THEN depth - 1
                  ELSE depth
         IN  IF d = 0 THEN <<SubSeq(s, pos + 1, i - 1), i + 1>>
             ELSE BraceScan(s, pos, i + 1, d)

\* lines 131-141: <<argument, next position>>, positions counted from 1
_extract_braced(s, pos) ==
    IF pos > Len(s) THEN <<<<>>, pos>>
    ELSE IF s[pos] # "{" THEN <<<<s[pos]>>, pos + 1>>
    ELSE BraceScan(s, pos, pos, 0)

\* line 175 and line 181: the three replace calls on the converted argument
EscapeInner(s) ==
    ReplaceChar(ReplaceChar(ReplaceChar(s, "&", AMP), "<", LT), ">", GT)

RECURSIVE _latex_to_rl(_)
RECURSIVE LatexLoop(_, _, _)
\* lines 153-205: the while loop over s, result so far in result
LatexLoop(s, i, result) ==
    IF i > Len(s) THEN result
    ELSE IF s[i] = "^" THEN
        LET eb    == _extract_braced(s, i + 1)
            inner == EscapeInner(_latex_to_rl(eb[1]))
        IN  LatexLoop(s, eb[2], result \o SUPER_OPEN \o inner \o SUPER_CLOSE)
    ELSE IF s[i] = "_" THEN
        LET eb    == _extract_braced(s, i + 1)
            inner == EscapeInner(_latex_to_rl(eb[1]))
        IN  LatexLoop(s, eb[2], result \o SUB_OPEN \o inner \o SUB_CLOSE)
    ELSE LET c == s[i]
         IN  LatexLoop(s, i + 1,
                 result \o (IF c = "&" THEN AMP
                            ELSE IF c = "<" THEN LT
                            ELSE IF c = ">" THEN GT
                            ELSE <<c>>))

\* lines 144-207
_latex_to_rl(expr) ==
    LET s == Strip(RStripCh(LStripCh(Strip(expr), "$"), "$"))
    IN  Strip(CollapseSpaces(LatexLoop(s, 1, <<>>), 1))

RECURSIVE RunEnd(_, _, _)
\* the first position from i on whose character is in stop, or Len(s) + 1
RunEnd(s, i, stop) ==
    IF i > Len(s) \/ s[i] \in stop THEN i ELSE RunEnd(s, i + 1, stop)

\* _MATH_RE, line 97, tried at position i: the position after the match, or
\* 0.  \$\$[^$]+\$\$ is tried before \$[^$\n]+\$.
MathMatchEnd(s, i) ==
    LET j == RunEnd(s, i + 2, {"$"})
        k == RunEnd(s, i + 1, {"$", "\n"})
    IN  IF /\ StartsWithAt(s, i, <<"$", "$">>)
           /\ j > i + 2
           /\ StartsWithAt(s, j, <<"$", "$">>)
        THEN j + 2
        ELSE IF /\ StartsWithAt(s, i, <<"$">>)
                /\ k > i + 1
                /\ StartsWithAt(s, k, <<"$">>)
        THEN k + 1
        ELSE 0

RECURSIVE MathSub(_, _)
\* _MATH_RE.sub(_repl, text), line 217, from position i on
MathSub(s, i) ==
    IF i > Len(s) THEN <<>>
    ELSE LET e == MathMatchEnd(s, i)
         IN  IF e > 0 THEN _latex_to_rl(SubSeq(s, i, e - 1)) \o MathSub(s, e)
             ELSE <<s[i]>> \o MathSub(s, i + 1)

\* the tag names of tag_re, line 219
TagNames ==
    { <<"s", "u", "p", "e", "r">>, <<"s", "u", "b">>, <<"b">>, <<"i">>,
      <<"f", "o", "n", "t">> }

\* tag_re, line 219, tried at position i: the position after the match, or 0
TagEnd(s, i) ==
    LET j == IF StartsWithAt(s, i + 1, <<"/">>) THEN i + 2 ELSE i + 1
        k == RunEnd(s, j, {">"})
    IN  IF /\ StartsWithAt(s, i, <<"<">>)
           /\ \E n \in TagNames : StartsWithAt(s, j, n)
           /\ k <= Len(s)
        THEN k + 1
        ELSE 0

IsDigit(c) == c \in {"0", "1", "2", "3", "4", "5", "6", "7", "8", "9"}

RECURSIVE DigitRunEnd(_, _)
DigitRunEnd(s, i) ==
    IF i <= Len(s) /\ IsDigit(s[i]) THEN DigitRunEnd(s, i + 1) ELSE i

\* (amp|lt|gt|quot|#\d+); of line 227 tried at position j: its length, or 0
EntityTailLen(s, j) ==
    LET d == DigitRunEnd(s, j + 1)
    IN  IF StartsWithAt(s, j, <<"a", "m", "p", ";">>) THEN 4
        ELSE IF StartsWithAt(s, j, <<"l", "t", ";">>) THEN 3
        ELSE IF StartsWithAt(s, j, <<"g", "t", ";">>) THEN 3
        ELSE IF StartsWithAt(s, j, <<"q", "u", "o", "t", ";">>) THEN 5
        ELSE IF StartsWithAt(s, j, <<"#">>) /\ d > j + 1
                /\ StartsWithAt(s, d, <<";">>) THEN d + 1 - j
        ELSE 0

RECURSIVE UnDouble(_, _)
\* re.sub(r'&amp;(amp|lt|gt|quot|#\d+);', r'&\1;', p), line 227
UnDouble(p, i) ==
    IF i > Len(p) THEN <<>>
    ELSE LET n == IF StartsWithAt(p, i, AMP) THEN EntityTailLen(p, i + 5) ELSE 0
         IN  IF n > 0
             THEN <<"&">> \o SubSeq(p, i + 5, i + 4 + n) \o UnDouble(p, i + 5 + n)
             ELSE <<p[i]>> \o UnDouble(p, i + 1)

\* lines 226-228: a part of the converted text that is not a tag
EscapePart(p) ==
    ReplaceChar(UnDouble(ReplaceChar(p, "&", AMP), 1), "<", LT)

RECURSIVE SafeJoin(_, _, _)
\* lines 220-231: tag_re.split, the loop over the parts and the join; part
\* is the text since the last tag
SafeJoin(s, i, part) ==
    IF i > Len(s) THEN EscapePart(part)
    ELSE LET e == TagEnd(s, i)
         IN  IF e > 0
             THEN EscapePart(part) \o SubSeq(s, i, e - 1) \o SafeJoin(s, e, <<>>)
             ELSE SafeJoin(s, i + 1, Append(part, s[i]))

RECURSIVE FindSeq(_, _, _)
\* the first position from i on where p starts, or 0
FindSeq(s, i, p) ==
    IF i + Len(p) - 1 > Len(s) THEN 0
    ELSE IF StartsWithAt(s, i, p) THEN i
    ELSE FindSeq(s, i + 1, p)

\* mark(.+?)mark of lines 232-233 tried at position i: where the closing
\* mark starts, or 0; . matches no newline
EmphClose(s, i, mark) ==
    LET c == FindSeq(s, i + Len(mark) + 1, mark)
    IN  IF /\ StartsWithAt(s, i, mark)
           /\ c > 0
           /\ RunEnd(s, i + Len(mark), {"\n"}) >= c
        THEN c
        ELSE 0

RECURSIVE EmphSub(_, _, _, _, _)
\* re.sub(mark(.+?)mark, open \1 close, s), lines 232-233, from position i on
EmphSub(s, i, mark, open, close) ==
    IF i > Len(s) THEN <<>>
    ELSE LET c == EmphClose(s, i, mark)
         IN  IF c > 0
             THEN open \o SubSeq(s, i + Len(mark), c - 1) \o close
                  \o EmphSub(s, c + Len(mark), mark, open, close)
             ELSE <<s[i]>> \o EmphSub(s, i + 1, mark, open, close)

\* lines 210-234
_process(t) ==
    LET converted == MathSub(t, 1)
        out       == SafeJoin(converted, 1, <<>>)
        bold      == EmphSub(out, 1, <<"*", "*">>, B_OPEN, B_CLOSE)
    IN  EmphSub(bold, 1, <<"*">>, I_OPEN, I_CLOSE)

\* the characters of the texts given to _process
ProcAlphabet == {"$", "^", "_", "{", "}", "<", ">", "&", "x"}

ProcTexts == SeqsUpTo(ProcAlphabet, MaxProcLen)

\* one call _process(ptext)
Process ==
    /\ ~procDone
    /\ pout' = _process(ptext)
    /\ procDone' = TRUE
    /\ UNCHANGED ptext
    /\ UNCHANGED nonProc

InitProc ==
    /\ ptext \in ProcTexts
    /\ pout = <<>>
    /\ procDone = FALSE
    /\ IdleLLM /\ IdleSplit /\ IdleStruct /\ IdlePdf /\ IdleDl /\ IdleGen /\ IdleBp

NextProc == Process

SpecProc == InitProc /\ [][NextProc]_vars

\* number of positions of s where p starts
Occurrences(s, p) == Cardinality({i \in 1..Len(s) : StartsWithAt(s, i, p)})

\* the markup _process may write around the characters of these texts
MarkupTags == {SUPER_OPEN, SUPER_CLOSE, SUB_OPEN, SUB_CLOSE}

\* position i of s lies at the start, or at the end, of a tag
OpensTag(s, i) == \E tg \in MarkupTags : StartsWithAt(s, i, tg)
ClosesTag(s, i) == \E tg \in MarkupTags : StartsWithAt(s, i - Len(tg) + 1, tg)

\* C8: every '&', '<', '>' of the source is in the output escaped exactly
\* once (&amp; &lt; &gt;), none is left unescaped, none is escaped twice
\* (&amp;lt;), and the <super>/<sub> tags of a nested superscript or
\* subscript stay tags, not escaped text (&lt;super&gt;).
C8_EscapedExactlyOnce ==
    procDone =>
        /\ \A i \in 1..Len(pout) :
              /\ pout[i] = "<" => OpensTag(pout, i)
              /\ pout[i] = ">" => ClosesTag(pout, i)
              /\ pout[i] = "&" => \E en \in {AMP, LT, GT} : StartsWithAt(pout, i, en)
              /\ StartsWithAt(pout, i, AMP) =>
                    \A en \in {AMP, LT, GT} : ~StartsWithAt(pout, i + 5, Tail(en))
              /\ StartsWithAt(pout, i, LT) =>
                    \A tg \in MarkupTags : ~StartsWithAt(pout, i + 4, Tail(tg))
        /\ Occurrences(pout, AMP) = Occurrences(ptext, <<"&">>)
        /\ Occurrences(pout, LT) = Occurrences(ptext, <<"<">>)
        /\ Occurrences(pout, GT) = Occurrences(ptext, <<">">>)

(***************************************************************************)
(* Regular expressions of Python's re module, as the code uses them on     *)
(* lines of text.  A pattern is a tree of tuples:                          *)
(*   <<"set", S>>   one character of S        <<"nset", S>>  one not in S  *)
(*   <<"str", w>>   the characters of w       <<"cat", <<r1, ..., rn>>>>   *)
(*   <<"alt", <<r1, ..., rn>>>>   r1|...|rn, tried left to right           *)
(*   <<"rep", lo, hi, greedy, r>> r{lo,hi}, hi = -1 for no upper limit     *)
(*   <<"grp", n, r>>  capturing group n       <<"look", r>>  (?=r)         *)
(*   <<"bol">> ^      <<"eol">> $             <<"wb">> \b                  *)
(* Matching is by backtracking: ReM gives the states a match of the        *)
(* pattern can end in, in the order in which the backtracking search of re *)
(* reaches them, so the first one is the match re reports.  A state is the *)
(* position after the match and the spans <<start, end>> of the groups     *)
(* (end exclusive, <<0, 0>> for a group that has not matched).             *)
(***************************************************************************)
UpperCase ==
    {"A", "B", "C", "D", "E", "F", "G", "H", "I", "J", "K", "L", "M",
     "N", "O", "P", "Q", "R", "S", "T", "U", "V", "W", "X", "Y", "Z"}

LowerCase ==
    {"a", "b", "c", "d", "e", "f", "g", "h", "i", "j", "k", "l", "m",
     "n", "o", "p", "q", "r", "s", "t", "u", "v", "w", "x", "y", "z"}

Digits == {"0", "1", "2", "3", "4", "5", "6", "7", "8", "9"}

\* \w
WordChars == UpperCase \cup LowerCase \cup Digits \cup {"_"}

\* \s
WhiteSpace == {" ", "\t", "\n", "\r", "\f"}

\* the characters of a string literal
Chars(w) == [i \in 1..Len(w) |-> SubSeq(w, i, i)]

\* the two cases of a letter, for re.I
LettersLower ==
    <<"a", "b", "c", "d", "e", "f", "g", "h", "i", "j", "k", "l", "m",
      "n", "o", "p", "q", "r", "s", "t", "u", "v", "w", "x", "y", "z">>

LettersUpper ==
    <<"A", "B", "C", "D", "E", "F", "G", "H", "I", "J", "K", "L", "M",
      "N", "O", "P", "Q", "R", "S", "T", "U", "V", "W", "X", "Y", "Z">>

BothCases(c) ==
    IF \E k \in 1..Len(LettersLower) : c \in {LettersLower[k], LettersUpper[k]}
    THEN LET k == CHOOSE k \in 1..Len(LettersLower) :
                      c \in {LettersLower[k], LettersUpper[k]}
         IN  {LettersLower[k], LettersUpper[k]}
    ELSE {c}

\* c.lower()
ToLower(c) ==
    IF c \in UpperCase
    THEN LettersLower[CHOOSE k \in 1..Len(LettersUpper) : LettersUpper[k] = c]
    ELSE c

\* s.lower()
LowerStr(s) == [i \in 1..Len(s) |-> ToLower(s[i])]

\* the pattern trees
RSet(S) == <<"set", S>>
RNot(S) == <<"nset", S>>
RStr(w) == <<"str", w>>
RCat(items) == <<"cat", items>>
RAlt(items) == <<"alt", items>>
RRep(lo, hi, r) == <<"rep", lo, hi, TRUE, r>>
RLazy(lo, hi, r) == <<"rep", lo, hi, FALSE, r>>
RStar(r) == RRep(0, -1, r)
RPlus(r) == RRep(1, -1, r)
ROpt(r) == RRep(0, 1, r)
RGrp(n, r) == <<"grp", n, r>>
RLook(r) == <<"look", r>>
RBol == <<"bol">>
REol == <<"eol">>
RWb == <<"wb">>
\* .
RAny == RNot({"\n"})
\* a word under re.I
RStrI(w) == RCat([i \in 1..Len(w) |-> RSet(BothCases(w[i]))])

\* no group has matched
NoCaps == [g \in 1..8 |-> <<0, 0>>]

ReStart(i) == [pos |-> i, caps |-> NoCaps]

IsWordAt(s, i) == i >= 1 /\ i <= Len(s) /\ s[i] \in WordChars

RECURSIVE ReM(_, _, _)
RECURSIVE ReEach(_, _, _)
RECURSIVE ReCat(_, _, _, _)
RECURSIVE ReAlt(_, _, _, _)
RECURSIVE ReRep(_, _, _, _)
RECURSIVE ReRepEach(_, _, _, _, _)

\* the matches of re from each state of sts, in order
ReEach(re, s, sts) ==
    IF sts = <<>> THEN <<>>
    ELSE ReM(re, s, Head(sts)) \o ReEach(re, s, Tail(sts))

\* items[k], items[k+1], ... one after the other
ReCat(items, k, s, sts) ==
    IF k > Len(items) \/ sts = <<>> THEN sts
    ELSE ReCat(items, k + 1, s, ReEach(items[k], s, sts))

\* items[k] | items[k+1] | ...
ReAlt(items, k, s, st) ==
    IF k > Len(items) THEN <<>>
    ELSE ReM(items[k], s, st) \o ReAlt(items, k + 1, s, st)

\* the repetition re after n iterations, continued from each state of sts;
\* an iteration that matches the empty string ends the repetition
ReRepEach(re, s, sts, n, from) ==
    IF sts = <<>> THEN <<>>
    ELSE (IF Head(sts).pos > from \/ n < re[2]
          THEN ReRep(re, s, Head(sts), n + 1) ELSE <<>>)
         \o ReRepEach(re, s, Tail(sts), n, from)

\* the repetition re = <<"rep", lo, hi, greedy, r>> after n iterations
ReRep(re, s, st, n) ==
    LET more == IF re[3] = -1 \/ n < re[3]
                THEN ReRepEach(re, s, ReM(re[5], s, st), n, st.pos)
                ELSE <<>>
        stop == IF n >= re[2] THEN <<st>> ELSE <<>>
    IN  IF re[4] THEN more \o stop ELSE stop \o more

ReM(re, s, st) ==
    LET i == st.pos
        k == re[1]
    IN  IF k = "set" THEN
            IF i <= Len(s) /\ s[i] \in re[2]
            THEN <<[st EXCEPT !.pos = i + 1]>> ELSE <<>>
        ELSE IF k = "nset" THEN
            IF i <= Len(s) /\ s[i] \notin re[2]
            THEN <<[st EXCEPT !.pos = i + 1]>> ELSE <<>>
        ELSE IF k = "str" THEN
            IF StartsWithAt(s, i, re[2])
            THEN <<[st EXCEPT !.pos = i + Len(re[2])]>> ELSE <<>>
        ELSE IF k = "cat" THEN ReCat(re[2], 1, s, <<st>>)
        ELSE IF k = "alt" THEN ReAlt(re[2], 1, s, st)
        ELSE IF k = "rep" THEN ReRep(re, s, st, 0)
        ELSE IF k = "grp" THEN
            LET r == ReM(re[3], s, st)
            IN  [j \in 1..Len(r) |->
                    [r[j] EXCEPT !.caps[re[2]] = <<i, r[j].pos>>]]
        ELSE IF k = "look" THEN
            IF ReM(re[2], s, st) # <<>> THEN <<st>> ELSE <<>>
        ELSE IF k = "bol" THEN
            IF i = 1 THEN <<st>> ELSE <<>>
        ELSE IF k = "eol" THEN
            IF i = Len(s) + 1 \/ (i = Len(s) /\ s[i] = "\n")
            THEN <<st>> ELSE <<>>
        ELSE \* "wb"
            IF IsWordAt(s, i - 1) # IsWordAt(s, i) THEN <<st>> ELSE <<>>

\* re.match(re, s): the pattern matches at the start of s
ReMatch(re, s) == ReM(re, s, ReStart(1)) # <<>>

\* the match re.match reports
ReFirst(re, s, i) == Head(ReM(re, s, ReStart(i)))

\* re.match(re, s).group(n)
ReGroup(re, s, n) ==
    LET c == ReFirst(re, s, 1).caps[n]
    IN  IF c[1] = 0 THEN <<>> ELSE SubSeq(s, c[1], c[2] - 1)

RECURSIVE ReSearchFrom(_, _, _)
\* re.search(re, s), scanning from position i: the start of the leftmost
\* match, or 0
ReSearchFrom(re, s, i) ==
    IF i > Len(s) + 1 THEN 0
    ELSE IF ReM(re, s, ReStart(i)) # <<>> THEN i
    ELSE ReSearchFrom(re, s, i + 1)

RECURSIVE ReSub(_, _, _, _)
\* re.sub(re, rep, s) for a pattern that matches no empty string, from i on
ReSub(re, rep, s, i) ==
    LET b == ReSearchFrom(re, s, i)
        e == ReFirst(re, s, b).pos
    IN  IF i > Len(s) THEN <<>>
        ELSE IF b = 0 THEN SubSeq(s, i, Len(s))
        ELSE SubSeq(s, i, b - 1) \o rep \o ReSub(re, rep, s, e)

RECURSIVE ReFindAll(_, _, _)
\* re.findall(re, s) from i on: the matches, each as <<start, state>>
ReFindAll(re, s, i) ==
    LET b == ReSearchFrom(re, s, i)
        m == ReFirst(re, s, b)
    IN  IF i > Len(s) + 1 \/ b = 0 THEN <<>>
        ELSE <<<<b, m>>>> \o ReFindAll(re, s, IF m.pos > b THEN m.pos ELSE b + 1)

\* line 409:  ^(SECTION|Section|PART|Part)\s+[A-Da-d](\s|[-:]|$)
RE_sec_hdr ==
    RCat(<<
      RBol,
      RGrp(
        1,
        RAlt(<<
          RStr(Chars("SECTION")),
          RStr(Chars("Section")),
          RStr(Chars("PART")),
          RStr(Chars("Part"))
        >>)
      ),
      RPlus(RSet(WhiteSpace)),
      RSet({"A", "B", "C", "D"} \cup {"a", "b", "c", "d"}),
      RGrp(2, RAlt(<<RSet(WhiteSpace), RSet({"-", ":"}), REol>>))
    >>)

\* lines 411-412:  ^(GENERAL INSTRUCTIONS|General Instructions|Instructions|Note:|NOTE:)\s*$
RE_sec_hdr_literal ==
    RCat(<<
      RBol,
      RGrp(
        1,
        RAlt(<<
          RStr(Chars("GENERAL INSTRUCTIONS")),
          RStr(Chars("General Instructions")),
          RStr(Chars("Instructions")),
          RStr(Chars("Note:")),
          RStr(Chars("NOTE:"))
        >>)
      ),
      RStar(RSet(WhiteSpace)),
      REol
    >>)

\* line 418:  ^\|[\s\-:|]+\|
RE_divider ==
    RCat(<<
      RBol,
      RStr(Chars("|")),
      RPlus(RSet(WhiteSpace \cup {"-", ":", "|"})),
      RStr(Chars("|"))
    >>)

\* lines 424-426, re.I:  ^(School|Subject|Class|Board|Total\s*Marks|Time\s*Allowed|Date)\s*[:/]
_HDR_SKIP ==
    RCat(<<
      RBol,
      RGrp(
        1,
        RAlt(<<
          RStrI(Chars("School")),
          RStrI(Chars("Subject")),
          RStrI(Chars("Class")),
          RStrI(Chars("Board")),
          RCat(<<
            RStrI(Chars("Total")),
            RStar(RSet(WhiteSpace)),
            RStrI(Chars("Marks"))
          >>),
          RCat(<<
            RStrI(Chars("Time")),
            RStar(RSet(WhiteSpace)),
            RStrI(Chars("Allowed"))
          >>),
          RStrI(Chars("Date"))
        >>)
      ),
      RStar(RSet(WhiteSpace)),
      RSet({"/", ":"})
    >>)

\* lines 432-461, re.IGNORECASE
_FIG_JUNK ==
    RCat(<<
      RBol,
      RGrp(
        1,
        RAlt(<<
          RCat(<<
            RStrI(Chars("Figure")),
            RStar(RSet(WhiteSpace)),
            RStr(Chars(":"))
          >>),
          RCat(<<
            RStrI(Chars("Triangle")),
            RPlus(RSet(WhiteSpace)),
            RRep(2, 4, RSet(UpperCase \cup LowerCase)),
            REol
          >>),
          RCat(<<
            RStrI(Chars("Trapezium")),
            RPlus(RSet(WhiteSpace)),
            RRep(2, 4, RSet(UpperCase \cup LowerCase)),
            REol
          >>),
          RCat(<<
            RStrI(Chars("Right")),
            ROpt(RSet(WhiteSpace \cup {"-"})),
            RStrI(Chars("angle")),
            ROpt(RStrI(Chars("d"))),
            RPlus(RSet(WhiteSpace)),
            RGrp(2, RAlt(<<RStrI(Chars("Triangle")), RStrI(Chars("Iso"))>>))
          >>),
          RCat(<<
            RStrI(Chars("Right")),
            RPlus(RSet(WhiteSpace)),
            RStrI(Chars("Angle")),
            RPlus(RSet(WhiteSpace)),
            RStrI(Chars("Triangle")),
            REol
          >>),
          RCat(<<
            RStrI(Chars("Altitude")),
            ROpt(
              RGrp(
                3,
                RCat(<<
                  RPlus(RSet(WhiteSpace)),
                  RStrI(Chars("from")),
                  RPlus(RSet(WhiteSpace)),
                  RPlus(RSet(WordChars)),
                  ROpt(
                    RGrp(
                      4,
                      RCat(<<
                        RPlus(RSet(WhiteSpace)),
                        RStrI(Chars("to")),
                        RPlus(RSet(WhiteSpace)),
                        RPlus(RSet(WordChars))
                      >>)
                    )
                  )
                >>)
              )
            ),
            REol
          >>),
          RCat(<<
            RStrI(Chars("Angle")),
            RPlus(RSet(WhiteSpace)),
            RSet(UpperCase \cup LowerCase),
            RStar(RSet(WhiteSpace)),
            ROpt(RStr(Chars("="))),
            RStar(RSet(WhiteSpace)),
            RPlus(RSet(Digits)),
            ROpt(RStr(<<"deg">>)),
            REol
          >>),
          RCat(<<
            RStrI(Chars("Angle")),
            RPlus(RSet(WhiteSpace)),
            RSet(UpperCase \cup LowerCase),
            RPlus(RSet(WhiteSpace)),
            RPlus(RSet(Digits)),
            ROpt(RStr(<<"deg">>)),
            REol
          >>),
          RCat(<<
            RStr(<<"angle">>),
            RSet(UpperCase \cup LowerCase),
            RStar(RSet(WhiteSpace)),
            RStr(Chars("=")),
            RStar(RSet(WhiteSpace)),
            RPlus(RSet(Digits)),
            ROpt(RStr(<<"deg">>)),
            REol
          >>),
          RCat(<<
            RPlus(RSet(UpperCase \cup LowerCase)),
            RPlus(RSet(WhiteSpace)),
            RStrI(Chars("is")),
            RPlus(RSet(WhiteSpace)),
            RGrp(
              5,
              RAlt(<<
                RStrI(Chars("altitude")),
                RStrI(Chars("median")),
                RStrI(Chars("midpoint")),
                RStrI(Chars("perpendicular"))
              >>)
            ),
            RPlus(RSet(WhiteSpace)),
            RStrI(Chars("to")),
            RPlus(RSet(WhiteSpace)),
            RPlus(RSet(UpperCase \cup LowerCase))
          >>),
          RCat(<<
            RStrI(Chars("Side")),
            RPlus(RSet(WhiteSpace)),
            RRep(2, 2, RSet(UpperCase \cup LowerCase)),
            REol
          >>),
          RCat(<<
            RStrI(Chars("Parallel")),
            RPlus(RSet(WhiteSpace)),
            RRep(2, 2, RSet(UpperCase \cup LowerCase)),
            REol
          >>),
          RCat(<<
            RStrI(Chars("Diagonal")),
            ROpt(RStrI(Chars("s"))),
            RPlus(RSet(WhiteSpace)),
            RRep(2, 2, RSet(UpperCase \cup LowerCase)),
            RPlus(RSet(WhiteSpace)),
            RStrI(Chars("and")),
            RPlus(RSet(WhiteSpace)),
            RRep(2, 2, RSet(UpperCase \cup LowerCase))
          >>),
          RCat(<<
            RRep(2, 2, RSet(UpperCase \cup LowerCase)),
            RPlus(RSet(WhiteSpace)),
            RStrI(Chars("Parallel")),
            RPlus(RSet(WhiteSpace)),
            RStrI(Chars("to")),
            RPlus(RSet(WhiteSpace)),
            RRep(2, 2, RSet(UpperCase \cup LowerCase)),
            REol
          >>),
          RCat(<<
            RPlus(RSet(UpperCase \cup LowerCase)),
            RPlus(RSet(WhiteSpace)),
            RStrI(Chars("on")),
            RPlus(RSet(WhiteSpace)),
            RRep(2, 2, RSet(UpperCase \cup LowerCase)),
            REol
          >>),
          RCat(<<
            RPlus(RSet(UpperCase \cup LowerCase)),
            RPlus(RSet(WhiteSpace)),
            RStrI(Chars("Parallel")),
            RPlus(RSet(WhiteSpace)),
            RStrI(Chars("to")),
            RPlus(RSet(WhiteSpace)),
            RPlus(RSet(UpperCase \cup LowerCase)),
            REol
          >>),
          RCat(<<
            RStrI(Chars("Right")),
            RPlus(RSet(WhiteSpace)),
            RGrp(
              6,
              RCat(<<
                RStrI(Chars("angle")),
                RAlt(<<
                  ROpt(RStrI(Chars("s"))),
                  RCat(<<
                    RPlus(RSet(WhiteSpace)),
                    RStrI(Chars("at")),
                    RPlus(RSet(WhiteSpace)),
                    RStrI(Chars("vertex"))
                  >>)
                >>)
              >>)
            )
          >>),
          RCat(<<RStrI(Chars("Perpendicular")), REol>>),
          RCat(<<
            RStrI(Chars("Distance")),
            RPlus(RSet(WhiteSpace)),
            RStrI(Chars("from")),
            RPlus(RSet(WhiteSpace)),
            RSet(UpperCase \cup LowerCase),
            RPlus(RSet(WhiteSpace)),
            RStrI(Chars("to")),
            RPlus(RSet(WhiteSpace)),
            RPlus(RSet(UpperCase \cup LowerCase))
          >>),
          RCat(<<
            RRep(
              3,
              -1,
              RCat(<<
                RPlus(RSet(Digits)),
                ROpt(RStr(<<"deg">>)),
                RStar(RSet(WhiteSpace))
              >>)
            ),
            REol
          >>),
          RRep(
            2,
            -1,
            RCat(<<
              RStr(Chars("140")),
              RAlt(<<
                RStr(Chars("\"")),
                RCat(<<
                  RStar(RSet(WhiteSpace)),
                  ROpt(RStr(Chars("\""))),
                  RStar(RSet(WhiteSpace))
                >>)
              >>)
            >>)
          ),
          RCat(<<
            RStr(<<"theta">>),
            RStar(RSet(WhiteSpace)),
            RStr(Chars("=")),
            RStar(RSet(WhiteSpace)),
            RPlus(RSet(Digits)),
            ROpt(RStr(<<"deg">>)),
            RStar(RSet(WhiteSpace)),
            REol
          >>),
          RCat(<<
            RStr(<<"alpha">>),
            RStar(RSet(WhiteSpace)),
            RStr(Chars("=")),
            RStar(RSet(WhiteSpace)),
            RPlus(RSet(Digits)),
            ROpt(RStr(<<"deg">>)),
            RStar(RSet(WhiteSpace)),
            REol
          >>),
          RCat(<<
            RSet(UpperCase \cup LowerCase),
            RStrI(Chars("M")),
            RStar(RSet(WhiteSpace)),
            RStrI(Chars("is")),
            RPlus(RSet(WhiteSpace)),
            RStrI(Chars("altitude"))
          >>),
          RRep(
            2,
            -1,
            RCat(<<
              RStrI(Chars("Angle")),
              RPlus(RSet(WhiteSpace)),
              RSet(UpperCase \cup LowerCase),
              RStar(RSet(WhiteSpace)),
              ROpt(RStr(Chars("\n")))
            >>)
          )
        >>)
      )
    >>)

\* lines 559-560:  ^(GENERAL INSTRUCTIONS|General Instructions|Instructions)\s*$
RE_general_instr ==
    RCat(<<
      RBol,
      RGrp(
        1,
        RAlt(<<
          RStr(Chars("GENERAL INSTRUCTIONS")),
          RStr(Chars("General Instructions")),
          RStr(Chars("Instructions"))
        >>)
      ),
      RStar(RSet(WhiteSpace)),
      REol
    >>)

\* line 563:  ^\d+\.\s+
RE_instr_line ==
    RCat(<<
      RBol,
      RPlus(RSet(Digits)),
      RStr(Chars(".")),
      RPlus(RSet(WhiteSpace))
    >>)

\* line 596, re.I:  ^Figure\s*:\s*(.+)
RE_fig_m ==
    RCat(<<
      RBol,
      RStrI(Chars("Figure")),
      RStar(RSet(WhiteSpace)),
      RStr(Chars(":")),
      RStar(RSet(WhiteSpace)),
      RGrp(1, RPlus(RAny))
    >>)

\* line 601:  (?:\.\s*)?(?:Angle\s+[A-Z]\s*=?\s*\d+°?\s*){1,}$
RE_angle_noise ==
    RCat(<<
      ROpt(RCat(<<RStr(Chars(".")), RStar(RSet(WhiteSpace))>>)),
      RPlus(
        RCat(<<
          RStr(Chars("Angle")),
          RPlus(RSet(WhiteSpace)),
          RSet(UpperCase),
          RStar(RSet(WhiteSpace)),
          ROpt(RStr(Chars("="))),
          RStar(RSet(WhiteSpace)),
          RPlus(RSet(Digits)),
          ROpt(RStr(<<"deg">>)),
          RStar(RSet(WhiteSpace))
        >>)
      ),
      REol
    >>)

\* lines 602 and 619:  (?:\s*\d+°){2,}
RE_degree_noise ==
    RRep(
      2,
      -1,
      RCat(<<RStar(RSet(WhiteSpace)), RPlus(RSet(Digits)), RStr(<<"deg">>)>>)
    )

\* line 617, re.I:  ^DIAGRAM:\s*
RE_diagram_prefix ==
    RCat(<<
      RBol,
      RStrI(Chars("DIAGRAM")),
      RStr(Chars(":")),
      RStar(RSet(WhiteSpace))
    >>)

\* lines 627 and 632:  \w+
RE_word ==
    RPlus(RSet(WordChars))

\* line 697:  ^\s*[\(\[]\s*([a-dA-D])\s*[\)\]\.]?\s+(.+)
RE_opt_m ==
    RCat(<<
      RBol,
      RStar(RSet(WhiteSpace)),
      RSet({"(", "["}),
      RStar(RSet(WhiteSpace)),
      RGrp(1, RSet({"a", "b", "c", "d"} \cup {"A", "B", "C", "D"})),
      RStar(RSet(WhiteSpace)),
      ROpt(RSet({")", ".", "]"})),
      RPlus(RSet(WhiteSpace)),
      RGrp(2, RPlus(RAny))
    >>)

\* lines 698 and 710:  ^(Q\.?\s*)?\d+[\.)\]]\s
RE_q_prefix ==
    RCat(<<
      RBol,
      ROpt(
        RGrp(
          1,
          RCat(<<
            RStr(Chars("Q")),
            ROpt(RStr(Chars("."))),
            RStar(RSet(WhiteSpace))
          >>)
        )
      ),
      RPlus(RSet(Digits)),
      RSet({")", ".", "]"}),
      RSet(WhiteSpace)
    >>)

\* lines 707-708:  [\(\[]([a-dA-D])[\)\]\.]?\s+([^(\[]+?)(?=\s*[\(\[][a-dA-D][\)\]\.]|$)
RE_multi ==
    RCat(<<
      RSet({"(", "["}),
      RGrp(1, RSet({"a", "b", "c", "d"} \cup {"A", "B", "C", "D"})),
      ROpt(RSet({")", ".", "]"})),
      RPlus(RSet(WhiteSpace)),
      RGrp(2, RLazy(1, -1, RNot({"(", "["}))),
      RLook(
        RAlt(<<
          RCat(<<
            RStar(RSet(WhiteSpace)),
            RSet({"(", "["}),
            RSet({"a", "b", "c", "d"} \cup {"A", "B", "C", "D"}),
            RSet({")", ".", "]"})
          >>),
          REol
        >>)
      )
    >>)

\* line 718:  ^(Q\.?\s*)?(\d+)[\.)\]]\s+(.+)
RE_q_m ==
    RCat(<<
      RBol,
      ROpt(
        RGrp(
          1,
          RCat(<<
            RStr(Chars("Q")),
            ROpt(RStr(Chars("."))),
            RStar(RSet(WhiteSpace))
          >>)
        )
      ),
      RGrp(2, RPlus(RSet(Digits))),
      RSet({")", ".", "]"}),
      RPlus(RSet(WhiteSpace)),
      RGrp(3, RPlus(RAny))
    >>)

\* line 724:  \[\s*(\d+)\s*[Mm]arks?\s*\]\s*$
RE_mk_m ==
    RCat(<<
      RStr(Chars("[")),
      RStar(RSet(WhiteSpace)),
      RGrp(1, RPlus(RSet(Digits))),
      RStar(RSet(WhiteSpace)),
      RSet({"M", "m"}),
      RStr(Chars("ark")),
      ROpt(RStr(Chars("s"))),
      RStar(RSet(WhiteSpace)),
      RStr(Chars("]")),
      RStar(RSet(WhiteSpace)),
      REol
    >>)

\* line 737:  ^\s*[\(\[]\s*([a-z])\s*[\)\]]\s+(.+)
RE_sub_m ==
    RCat(<<
      RBol,
      RStar(RSet(WhiteSpace)),
      RSet({"(", "["}),
      RStar(RSet(WhiteSpace)),
      RGrp(1, RSet(LowerCase)),
      RStar(RSet(WhiteSpace)),
      RSet({")", "]"}),
      RPlus(RSet(WhiteSpace)),
      RGrp(2, RPlus(RAny))
    >>)

\* lines 742 and 799:  (\[\s*\d+\s*[Mm]arks?\s*\])\s*$
RE_mk_m2 ==
    RCat(<<
      RGrp(
        1,
        RCat(<<
          RStr(Chars("[")),
          RStar(RSet(WhiteSpace)),
          RPlus(RSet(Digits)),
          RStar(RSet(WhiteSpace)),
          RSet({"M", "m"}),
          RStr(Chars("ark")),
          ROpt(RStr(Chars("s"))),
          RStar(RSet(WhiteSpace)),
          RStr(Chars("]"))
        >>)
      ),
      RStar(RSet(WhiteSpace)),
      REol
    >>)

\* line 785:  ^(Section|SECTION|Part|PART)\s+[A-Da-d]\b
RE_key_sec ==
    RCat(<<
      RBol,
      RGrp(
        1,
        RAlt(<<
          RStr(Chars("Section")),
          RStr(Chars("SECTION")),
          RStr(Chars("Part")),
          RStr(Chars("PART"))
        >>)
      ),
      RPlus(RSet(WhiteSpace)),
      RSet({"A", "B", "C", "D"} \cup {"a", "b", "c", "d"}),
      RWb
    >>)

\* line 797:  ^(Q\.?\s*)?(\d+)[\.)\]]\s*(.*)
RE_q_km ==
    RCat(<<
      RBol,
      ROpt(
        RGrp(
          1,
          RCat(<<
            RStr(Chars("Q")),
            ROpt(RStr(Chars("."))),
            RStar(RSet(WhiteSpace))
          >>)
        )
      ),
      RGrp(2, RPlus(RSet(Digits))),
      RSet({")", ".", "]"}),
      RStar(RSet(WhiteSpace)),
      RGrp(3, RStar(RAny))
    >>)

\* line 811:  ^\(?([a-z])\)\.?\s+(.+)
RE_sub_km ==
    RCat(<<
      RBol,
      ROpt(RStr(Chars("("))),
      RGrp(1, RSet(LowerCase)),
      RStr(Chars(")")),
      ROpt(RStr(Chars("."))),
      RPlus(RSet(WhiteSpace)),
      RGrp(2, RPlus(RAny))
    >>)

\* line 822:  ^[A-Za-z]\s*[=<>≤≥]
RE_key_relation ==
    RCat(<<
      RBol,
      RSet(UpperCase \cup LowerCase),
      RStar(RSet(WhiteSpace)),
      RSet({"<", "=", ">", "le", "ge"})
    >>)

\* line 823, re.I:  ^\s*(∴|Therefore|Hence|Thus)\b
RE_key_therefore ==
    RCat(<<
      RBol,
      RStar(RSet(WhiteSpace)),
      RGrp(
        1,
        RAlt(<<
          RStr(<<"therefore">>),
          RStrI(Chars("Therefore")),
          RStrI(Chars("Hence")),
          RStrI(Chars("Thus"))
        >>)
      ),
      RWb
    >>)

(***************************************************************************)
(* create_exam_pdf, lines 467-835.  The paper text and the answer key are  *)
(* sequences of characters; elems is the list of flowables handed to       *)
(* doc.build, each one a record of its kind, its style and the texts it    *)
(* was made from.  The loop over the lines of the paper (lines 565-754)    *)
(* and the loop over the lines of the key (lines 774-830) take one step    *)
(* per iteration.  The lines drawn hold no backslash, so the two re.sub    *)
(* calls of lines 567 and 776 leave them as they are.                      *)
(***************************************************************************)
RECURSIVE SplitOn(_, _)
\* s.split(c)
SplitOn(s, c) ==
    LET k == RunEnd(s, 1, {c})
    IN  IF k > Len(s) THEN <<s>>
        ELSE <<SubSeq(s, 1, k - 1)>> \o SplitOn(SubSeq(s, k + 1, Len(s)), c)

RECURSIVE JoinWith(_, _)
\* c.join(parts)
JoinWith(parts, c) ==
    IF parts = <<>> THEN <<>>
    ELSE IF Len(parts) = 1 THEN parts[1]
    ELSE parts[1] \o <<c>> \o JoinWith(Tail(parts), c)

RECURSIVE StripChars(_, _)
\* s.strip(chars)
StripChars(s, chars) ==
    IF s # <<>> /\ Head(s) \in chars THEN StripChars(Tail(s), chars)
    ELSE IF s # <<>> /\ s[Len(s)] \in chars
    THEN StripChars(SubSeq(s, 1, Len(s) - 1), chars)
    ELSE s

RECURSIVE NonEmpty(_)
\* [x for x in xs if x]
NonEmpty(xs) ==
    IF xs = <<>> THEN <<>>
    ELSE (IF Head(xs) # <<>> THEN <<Head(xs)>> ELSE <<>>) \o NonEmpty(Tail(xs))

\* the flowables
Flowable(kind, style, body) == [kind |-> kind, style |-> style, body |-> body]
Spacer == Flowable("Spacer", "", <<>>)
PageBreak == Flowable("PageBreak", "", <<>>)
HRFlowable == Flowable("HRFlowable", "", <<>>)
Paragraph(style, body) == Flowable("Paragraph", style, body)

\* lines 338-350
_sec_banner(s) == Flowable("Table", "SecBanner", <<s>>)

\* lines 353-370: the options two to a row, the last row filled with ('', '')
_opts_table(opts) ==
    Flowable("Table", "Opt",
        [k \in 1..((Len(opts) + 1) \div 2) |->
            <<opts[2 * k - 1],
              IF 2 * k <= Len(opts) THEN opts[2 * k] ELSE <<<<>>, <<>>>> >>])

\* lines 373-401: the rows filled up to the longest, every cell processed
_pipe_table(rows) ==
    LET mc == CHOOSE n \in {Len(rows[k]) : k \in 1..Len(rows)} :
                  \A k \in 1..Len(rows) : Len(rows[k]) <= n
    IN  Flowable("Table", "Pipe",
            [k \in 1..Len(rows) |->
                [j \in 1..mc |->
                    IF j <= Len(rows[k]) THEN _process(rows[k][j]) ELSE <<>>]])

\* lines 407-412
_is_sec_hdr(line) ==
    \/ ReMatch(RE_sec_hdr, Strip(line))
    \/ ReMatch(RE_sec_hdr_literal, Strip(line))

\* lines 414-415
_is_table_row(line) ==
    "|" \in Range(line) /\ StartsWithAt(Strip(line), 1, <<"|">>)

\* lines 417-418
_is_divider(line) == ReMatch(RE_divider, Strip(line))

\* lines 420-422
_is_hrule(line) ==
    Len(Strip(line)) > 3 /\ \A c \in Range(Strip(line)) : c \in {"-", "=", "_"}

\* lines 558-560
_is_general_instr(s) == ReMatch(RE_general_instr, Strip(s))

\* lines 562-563
_is_instr_line(s) == ReMatch(RE_instr_line, Strip(s)) /\ in_instr

\* lines 538-546, on the elements es and the row buffer rows
flush_table(es, rows) ==
    IF rows # <<>> THEN es \o <<Spacer, _pipe_table(rows), Spacer>> ELSE es

\* lines 548-553, on the elements es and the option buffer opts
flush_opts(es, opts) ==
    IF opts # <<>> THEN es \o <<_opts_table(opts), Spacer>> ELSE es

\* line 575
Cells(line) ==
    LET parts == SplitOn(line, "|")
    IN  NonEmpty([k \in 1..Len(parts) |-> Strip(parts[k])])

\* the group n of a match m in s
GroupOf(s, m, n) ==
    IF m.caps[n][1] = 0 THEN <<>> ELSE SubSeq(s, m.caps[n][1], m.caps[n][2] - 1)

\* lines 598-602: the description of a 'Figure:' line
FigureDesc(s) ==
    LET d1 == Strip(ReGroup(RE_fig_m, s, 1))
        d2 == Strip(ReSub(RE_angle_noise, <<>>, d1, 1))
    IN  Strip(ReSub(RE_degree_noise, <<>>, d2, 1))

\* line 613
IsDiagramLine(s) ==
    \/ StartsWithAt(s, 1, Chars("[DIAGRAM:"))
    \/ StartsWithAt(LowerStr(s), 1, Chars("[draw"))

\* lines 615-619: the description of a diagram placeholder line
DiagramDesc(s) ==
    LET label == StripChars(s, {"[", "]"})
        desc  == Strip(ReSub(RE_diagram_prefix, <<>>, label, 1))
    IN  Strip(ReSub(RE_degree_noise, <<>>, desc, 1))

\* lines 2530-2591: PNG bytes, or None when wkhtmltoimage is missing, fails
\* or writes too small a file
svg_to_png_bytes(svg) ==
    IF render[svg] \in {"png", "badpng"} THEN "bytes" ELSE "None"

\* lines 2595-2609: PILImage.open raises on bytes it cannot read, and
\* nothing here catches it
png_to_rl_image(svg) ==
    IF render[svg] = "png" THEN "Image" ELSE "raise"

\* lines 2814-2997: the drawing, or None on any exception
svg_to_rl_drawing(svg) ==
    IF render[svg] = "drawing" THEN "Drawing" ELSE "None"

\* lines 2613-2625
svg_to_best_image(svg) ==
    IF svg_to_png_bytes(svg) # "None" THEN png_to_rl_image(svg)
    ELSE svg_to_rl_drawing(svg)

\* if diagrams:  (line 622)
HasDiagrams == ~diagrams.none /\ diagrams.items # <<>>

\* the position of key k in the dict items, or 0
Lookup(items, k) ==
    IF \E i \in 1..Len(items) : items[i][1] = k
    THEN CHOOSE i \in 1..Len(items) : items[i][1] = k
    ELSE 0

\* set(re.findall(r'\w+', s.lower())), lines 627 and 632
Words(s) ==
    LET Found(l, ms) == {SubSeq(l, ms[k][1], ms[k][2].pos - 1) : k \in 1..Len(ms)}
        InLower(l) == Found(l, ReFindAll(RE_word, l, 1))
    IN  InLower(LowerStr(s))

RECURSIVE FuzzyBest(_, _, _, _)
\* lines 628-635: the loop over diagrams.items() from entry k on; best is
\* <<position of best_key or 0, best_score>>
FuzzyBest(items, k, desc_words, best) ==
    IF k > Len(items) THEN best
    ELSE IF items[k][2] = "" THEN FuzzyBest(items, k + 1, desc_words, best)
    ELSE LET Better(overlap) == IF overlap > best[2] THEN <<k, overlap>> ELSE best
         IN  FuzzyBest(items, k + 1, desc_words,
                       Better(Cardinality(desc_words \cap Words(items[k][1]))))

NoDrawing == [how |-> "None", key |-> <<>>]

\* lines 621-638 with a best_score of 1 taken as a match
Resolve_AnyOverlap(desc) ==
    LET items == diagrams.items
        Exact(ex) == IF HasDiagrams /\ ex # 0 /\ items[ex][2] # ""
                     THEN [how |-> svg_to_best_image(items[ex][2]), key |-> desc]
                     ELSE NoDrawing
        Fuzzy(best) == IF HasDiagrams /\ best[1] # 0 /\ best[2] >= 1
                       THEN [how |-> svg_to_best_image(items[best[1]][2]),
                             key |-> items[best[1]][1]]
                       ELSE NoDrawing
        Either(exact) ==
            IF exact.how # "None" THEN exact
            ELSE Fuzzy(FuzzyBest(items, 1, Words(desc), <<0, 0>>))
    IN  Either(Exact(Lookup(items, desc)))

\* lines 621-638: what drawing is after the resolution, and the dict key it
\* was made from; how is "raise" when svg_to_best_image raised
Resolve(desc) ==
    LET items == diagrams.items
        Exact(ex) == IF HasDiagrams /\ ex # 0 /\ items[ex][2] # ""
                     THEN [how |-> svg_to_best_image(items[ex][2]), key |-> desc]
                     ELSE NoDrawing
        Fuzzy(best) == IF HasDiagrams /\ best[1] # 0 /\ best[2] >= 2
                       THEN [how |-> svg_to_best_image(items[best[1]][2]),
                             key |-> items[best[1]][1]]
                       ELSE NoDrawing
        Either(exact) ==
            IF exact.how # "None" THEN exact
            ELSE Fuzzy(FuzzyBest(items, 1, Words(desc), <<0, 0>>))
    IN  Either(Exact(Lookup(items, desc)))

\* lines 640-675: the centred drawing, or the blank box
DiagramFlowables(desc, drawing) ==
    IF drawing.how # "None"
    THEN <<Spacer, Flowable("Table", drawing.how, <<drawing.key>>)>>
    ELSE <<Flowable("Table", "DiagramBox", <<desc>>)>>

\* lines 722-727 and 742-748: the body of a question without its mark tag,
\* and the digits, or the whole tag, that the pattern re captured
MarkSplit(re, body) ==
    LET Cut(b) ==
            IF b = 0 THEN <<body, <<>>>>
            ELSE <<Strip(SubSeq(body, 1, b - 1)),
                   GroupOf(body, ReFirst(re, body, b), 1)>>
    IN  Cut(ReSearchFrom(re, body, 1))

\* line 711: the (letter, value) pairs of re.findall
MultiOpts(s) ==
    LET Pairs(ms) ==
            [k \in 1..Len(ms) |->
                <<LowerStr(GroupOf(s, ms[k][2], 1)),
                  _process(Strip(GroupOf(s, ms[k][2], 2)))>>]
    IN  Pairs(ReFindAll(RE_multi, s, 1))

\* the state of the paper loop after one line: the elements, the row
\* buffer, in_table, the option buffer, in_instr, and whether the line
\* raised
After(es, rows, it, opts, ii) ==
    [elems |-> es, tbl_rows |-> rows, in_table |-> it,
     pending_opts |-> opts, in_instr |-> ii, raised |-> FALSE]

\* the state r after a line, with the branch b of the loop that handled it
Tag(b, r) ==
    [elems |-> r.elems, tbl_rows |-> r.tbl_rows, in_table |-> r.in_table,
     pending_opts |-> r.pending_opts, in_instr |-> r.in_instr,
     raised |-> r.raised, branch |-> b]

\* lines 571-579 with the row put before the rows of the buffer
TableRowLine_RowFirst(line) ==
    IF _is_divider(line)
    THEN After(elems, tbl_rows, in_table, pending_opts, in_instr)
    ELSE IF Cells(line) # <<>>
    THEN After(flush_opts(elems, pending_opts), <<Cells(line)>> \o tbl_rows,
               TRUE, <<>>, in_instr)
    ELSE After(flush_opts(elems, pending_opts), tbl_rows, in_table, <<>>, in_instr)

\* lines 571-579: a table row
TableRowLine(line) ==
    IF _is_divider(line)
    THEN After(elems, tbl_rows, in_table, pending_opts, in_instr)
    ELSE IF Cells(line) # <<>>
    THEN After(flush_opts(elems, pending_opts), Append(tbl_rows, Cells(line)),
               TRUE, <<>>, in_instr)
    ELSE After(flush_opts(elems, pending_opts), tbl_rows, in_table, <<>>, in_instr)

\* lines 613-677: a diagram placeholder; es is the elements so far
DiagramLine(s, es) ==
    LET Placed(desc, drawing, flushed) ==
            IF drawing.how = "raise"
            THEN [After(flushed, <<>>, FALSE, <<>>, in_instr) EXCEPT !.raised = TRUE]
            ELSE After(flushed \o DiagramFlowables(desc, drawing) \o <<Spacer>>,
                       <<>>, FALSE, <<>>, in_instr)
        Described(desc) ==
            Placed(desc, Resolve(desc),
                   flush_opts(es, pending_opts) \o <<Paragraph("DiagLabel", <<desc>>)>>)
    IN  Described(DiagramDesc(s))

\* lines 697-705: an option line
OptionLine(s, es) ==
    LET Buffered(opts) ==
            IF Len(opts) >= 4
            THEN After(flush_opts(es, opts), <<>>, FALSE, <<>>, FALSE)
            ELSE After(es, <<>>, FALSE, opts, FALSE)
        Matched(m) ==
            Buffered(Append(pending_opts,
                <<LowerStr(GroupOf(s, m, 1)), _process(GroupOf(s, m, 2))>>))
    IN  Matched(ReFirst(RE_opt_m, s, 1))

\* lines 718-735: a numbered question
QuestionLine(s, es) ==
    LET Q(num, mk) == Paragraph("Q", <<num, _process(mk[1]), mk[2]>>)
        Matched(m) == Q(GroupOf(s, m, 2), MarkSplit(RE_mk_m, GroupOf(s, m, 3)))
    IN  After(flush_opts(es, pending_opts) \o <<Matched(ReFirst(RE_q_m, s, 1))>>,
              <<>>, FALSE, <<>>, FALSE)

\* lines 737-751: a sub-part
SubPartLine(s, es) ==
    LET P(letter, mk) == Paragraph("QSub", <<letter, _process(mk[1]), mk[2]>>)
        Matched(m) == P(GroupOf(s, m, 1), MarkSplit(RE_mk_m2, GroupOf(s, m, 2)))
    IN  After(flush_opts(es, pending_opts) \o <<Matched(ReFirst(RE_sub_m, s, 1))>>,
              <<>>, FALSE, <<>>, in_instr)

\* lines 580-754: a line that is no table row; the elif of line 580 has
\* flushed the row buffer into es, and the buffer is empty and in_table
\* false from there on
OtherLine(line, s, es) ==
    LET flushed == flush_opts(es, pending_opts)
        skip    == After(es, <<>>, FALSE, pending_opts, in_instr)
    IN  IF s = <<>> THEN
            Tag("blank", After(flushed \o <<Spacer>>, <<>>, FALSE, <<>>, in_instr))
        ELSE IF ReMatch(_HDR_SKIP, s) THEN Tag("header metadata", skip)
        ELSE IF ReMatch(_FIG_JUNK, s) THEN Tag("figure junk", skip)
        ELSE IF ReMatch(RE_fig_m, s) THEN
            Tag("figure label",
                After(flushed \o (IF FigureDesc(s) # <<>>
                                  THEN <<Paragraph("DiagLabel", <<FigureDesc(s)>>)>>
                                  ELSE <<>>),
                      <<>>, FALSE, <<>>, in_instr))
        ELSE IF _is_hrule(line) THEN
            Tag("rule", After(flushed \o <<HRFlowable>>, <<>>, FALSE, <<>>, in_instr))
        ELSE IF IsDiagramLine(s) THEN Tag("diagram", DiagramLine(s, es))
        ELSE IF _is_general_instr(s) THEN
            Tag("instructions header", After(flushed, <<>>, FALSE, <<>>, TRUE))
        ELSE IF _is_sec_hdr(line) /\ ~_is_general_instr(s) THEN
            Tag("section header",
                After(flushed \o <<Spacer, _sec_banner(s), Spacer>>,
                      <<>>, FALSE, <<>>, FALSE))
        ELSE IF _is_instr_line(s) THEN Tag("instruction item", skip)
        ELSE IF ReMatch(RE_opt_m, s) /\ ~ReMatch(RE_q_prefix, s) THEN
            Tag("option", OptionLine(s, es))
        ELSE IF Len(ReFindAll(RE_multi, s, 1)) >= 2 /\ ~ReMatch(RE_q_prefix, s) THEN
            Tag("options in line",
                After(flushed \o <<_opts_table(MultiOpts(s)), Spacer>>,
                      <<>>, FALSE, <<>>, FALSE))
        ELSE IF ReMatch(RE_q_m, s) /\ ~in_instr THEN Tag("question", QuestionLine(s, es))
        ELSE IF ReMatch(RE_sub_m, s) /\ ~in_instr THEN Tag("sub-part", SubPartLine(s, es))
        ELSE Tag("plain",
                 After(flushed \o <<Paragraph("QCont", <<_process(s)>>)>>,
                       <<>>, FALSE, <<>>, in_instr))

\* lines 565-754 without the test of line 571
LineStep_TableRowsAsText(raw) ==
    LET line == RStrip(raw)
        s    == Strip(line)
    IN  OtherLine(line, s,
            IF in_table THEN flush_table(elems, tbl_rows) ELSE elems)

\* lines 565-754: one iteration of the loop over the lines of the paper
LineStep(raw) ==
    LET line == RStrip(raw)
        s    == Strip(line)
    IN  IF _is_table_row(line) THEN Tag("table row", TableRowLine(line))
        ELSE OtherLine(line, s,
                 IF in_table THEN flush_table(elems, tbl_rows) ELSE elems)

\* line 761 without the test of answer_key.strip()
KeyWantedUnstripped ==
    /\ include_key
    /\ ~answer_key.none /\ answer_key.str # <<>>

\* line 761
KeyWanted ==
    /\ include_key
    /\ ~answer_key.none /\ answer_key.str # <<>>
    /\ Strip(answer_key.str) # <<>>

\* lines 774-830: the flowables of one line of the answer key
KeyLineFlowables(raw) ==
    LET raw_k == RStrip(raw)
        sk    == Strip(raw_k)
        q_km  == ReFirst(RE_q_km, sk, 1)
        mk    == MarkSplit(RE_mk_m2, Strip(GroupOf(sk, q_km, 3)))
        s_km  == ReFirst(RE_sub_km, sk, 1)
    IN  IF sk = <<>> THEN <<Spacer>>
        ELSE IF ReMatch(RE_key_sec, sk) THEN
            <<Spacer, Flowable("Table", "KSec", <<RStripCh(sk, ":")>>), Spacer>>
        ELSE IF ReMatch(RE_q_km, sk) THEN
            <<Paragraph("KQ", <<GroupOf(sk, q_km, 2),
                                IF mk[1] # <<>> THEN _process(mk[1]) ELSE <<>>,
                                mk[2]>>)>>
        ELSE IF ReMatch(RE_sub_km, sk) THEN
            <<Paragraph("KSub", <<GroupOf(sk, s_km, 1),
                                  _process(GroupOf(sk, s_km, 2))>>)>>
        ELSE IF StartsWithAt(raw_k, 1, Chars("   ")) \/ StartsWithAt(raw_k, 1, <<"\t">>)
        THEN <<Paragraph("KStep", <<_process(sk)>>)>>
        ELSE IF \/ StartsWithAt(sk, 1, <<"$">>)
                \/ ReMatch(RE_key_relation, sk)
                \/ ReMatch(RE_key_therefore, sk)
        THEN <<Paragraph("KStep", <<_process(sk)>>)>>
        ELSE <<Paragraph("KStep", <<_process(sk)>>)>>

pdfArgs == <<paper_text, answer_key, include_key, diagrams, render>>

\* lines 467-555: the header band, then the loop starts
CreateExamPdf ==
    /\ pdf_pc = "start"
    /\ elems' = <<Flowable("Table", "PTitle", <<>>),
                  Flowable("Table", "PMeta", <<>>), Spacer>>
    /\ lines' = SplitOn(paper_text, "\n")
    /\ i_line' = 0
    /\ tbl_rows' = <<>>
    /\ in_table' = FALSE
    /\ pending_opts' = <<>>
    /\ in_instr' = FALSE
    /\ branch' = "none"
    /\ pdf_pc' = "body"
    /\ UNCHANGED <<key_lines, ki>>
    /\ UNCHANGED pdfArgs
    /\ UNCHANGED nonPdf

\* lines 565-754: one line of the paper; an exception of the diagram
\* conversion leaves create_exam_pdf
PaperLine ==
    /\ pdf_pc = "body"
    /\ i_line < Len(lines)
    /\ \E r \in {LineStep(lines[i_line + 1])} :
           /\ elems' = r.elems
           /\ tbl_rows' = r.tbl_rows
           /\ in_table' = r.in_table
           /\ pending_opts' = r.pending_opts
           /\ in_instr' = r.in_instr
           /\ branch' = r.branch
           /\ pdf_pc' = IF r.raised THEN "raised" ELSE "body"
    /\ i_line' = i_line + 1
    /\ UNCHANGED <<lines, key_lines, ki>>
    /\ UNCHANGED pdfArgs
    /\ UNCHANGED nonPdf

\* lines 756-772: after the last line of the paper
EndOfPaper ==
    /\ pdf_pc = "body"
    /\ i_line >= Len(lines)
    /\ \E es \in {IF in_table
                    THEN flush_table(flush_opts(elems, pending_opts), tbl_rows)
                    ELSE flush_opts(elems, pending_opts)} :
           IF KeyWanted
           THEN /\ elems' = es \o <<PageBreak, Flowable("Table", "KTitle", <<>>), Spacer>>
                /\ key_lines' = SplitOn(answer_key.str, "\n")
                /\ pdf_pc' = "key"
           ELSE /\ elems' = es
                /\ key_lines' = <<>>
                /\ pdf_pc' = "build"
    /\ pending_opts' = <<>>
    /\ tbl_rows' = IF in_table THEN <<>> ELSE tbl_rows
    /\ in_table' = FALSE
    /\ ki' = 0
    /\ UNCHANGED <<lines, i_line, in_instr, branch>>
    /\ UNCHANGED pdfArgs
    /\ UNCHANGED nonPdf

\* lines 774-830: one line of the answer key
KeyLine ==
    /\ pdf_pc = "key"
    /\ ki < Len(key_lines)
    /\ elems' = elems \o KeyLineFlowables(key_lines[ki + 1])
    /\ ki' = ki + 1
    /\ UNCHANGED <<lines, i_line, tbl_rows, in_table, pending_opts, in_instr,
                   branch, key_lines, pdf_pc>>
    /\ UNCHANGED pdfArgs
    /\ UNCHANGED nonPdf

\* lines 832-835: doc.build(elems)
Build ==
    /\ \/ pdf_pc = "build"
       \/ pdf_pc = "key" /\ ki >= Len(key_lines)
    /\ pdf_pc' = "done"
    /\ UNCHANGED <<lines, i_line, elems, tbl_rows, in_table, pending_opts,
                   in_instr, branch, key_lines, ki>>
    /\ UNCHANGED pdfArgs
    /\ UNCHANGED nonPdf

\* the lines a paper is drawn from: one for each kind of line the loop tells
\* apart
PaperLineCatalogue ==
    { <<>>, Chars("1. x"), Chars("(a) y"), Chars("(e) z"), Chars("(a) p (b) q"),
      Chars("| p | q |"), Chars("|---|"), Chars("SECTION A"),
      Chars("Instructions"), Chars("Class: 9"), Chars("Side AB"),
      Chars("----"), Chars("[DIAGRAM: a b]"), Chars("x") }

\* the lines of the papers whose diagrams are drawn in full
DiagramLineCatalogue ==
    { Chars("[DIAGRAM: a b]"), Chars("[draw a b]"), Chars("[draw a]"),
      Chars("x") }

TextsOf(catalogue) ==
    {JoinWith(ls, "\n") : ls \in SeqsUpTo(catalogue, MaxPaperLines)}

\* the lines of the longer papers of options: two options and a line of
\* header metadata
OptionLineCatalogue == { Chars("(a) y"), Chars("(b) z"), Chars("Class: 9") }

\* the lines of the papers of instructions
InstrLineCatalogue ==
    { Chars("Instructions"), <<>>, Chars("1. x"), Chars("SECTION A") }

\* the lines of the papers of tables: rows, divider rows, rows with one pipe
\* only, and a line of text
TableLineCatalogue ==
    { Chars("| p |"), Chars("|---|"), Chars("| | q |"), Chars("|---"),
      Chars("||-"), Chars("| r"), Chars("x") }

\* the lines of the papers of headings: the headings of the state-board
\* prompt (lines 1143-1153) and the literal headers of _is_sec_hdr
HeadingLineCatalogue ==
    { Chars("SECTION A"), Chars("PART B - WRITTEN"), Chars("Section I"),
      Chars("Section VII - Application"), Chars("SECTION E"),
      Chars("General Instructions"), Chars("Note:") }

TextsUpTo(catalogue, n) == {JoinWith(ls, "\n") : ls \in SeqsUpTo(catalogue, n)}

\* the answer_key argument: None or a string
NoKey == [none |-> TRUE, str |-> <<>>]

AnswerKeys ==
    {NoKey} \cup
    {[none |-> FALSE, str |-> k] :
        k \in { <<>>, Chars(" \n "), Chars("1. x [2 Marks]"),
                Chars("Section A:\n(a) y\n\n   z") }}

\* the diagrams argument: None or a dict, its items in insertion order; an
\* SVG is "" or the name of one
DiagKeys == {Chars("a b"), Chars("b a c"), Chars("a")}
SvgIds == {"svg1", "svg2"}
NoDiagrams == [none |-> TRUE, items |-> <<>>]

DiagramDicts ==
    {d \in SeqsUpTo(DiagKeys \X (SvgIds \cup {""}), MaxDiagrams) :
        \A i, j \in 1..Len(d) : d[i][1] = d[j][1] => i = j}

DiagramArgs == {NoDiagrams} \cup {[none |-> FALSE, items |-> d] : d \in DiagramDicts}

\* what the conversion of each SVG comes to in this run: a PNG that PIL
\* reads, a PNG that PIL cannot read, no PNG but a drawing of the fallback
\* renderer, or neither
Renders == {"png", "badpng", "drawing", "none"}

SvgsOf(d) == {d.items[i][2] : i \in 1..Len(d.items)}

\* create_exam_pdf has not been called
PdfStart ==
    /\ lines = <<>>
    /\ i_line = 0
    /\ elems = <<>>
    /\ tbl_rows = <<>>
    /\ in_table = FALSE
    /\ pending_opts = <<>>
    /\ in_instr = FALSE
    /\ branch = "none"
    /\ key_lines = <<>>
    /\ ki = 0
    /\ pdf_pc = "start"

\* The arguments are drawn in families, so that the lines and the diagrams
\* are each varied in full: papers of every kind of line with any answer
\* key and no diagrams, papers of placeholder lines with any diagrams and
\* any outcome of their conversion, and papers of option lines, of
\* instructions, of table rows and of headings with neither key nor diagrams.
InitPdf ==
    /\ PdfStart
    /\ \/ /\ paper_text \in TextsOf(PaperLineCatalogue)
          /\ answer_key \in AnswerKeys
          /\ include_key \in BOOLEAN
          /\ diagrams = NoDiagrams
          /\ render = [v \in SvgIds |-> "none"]
       \/ /\ paper_text \in TextsOf(DiagramLineCatalogue)
          /\ answer_key = NoKey
          /\ include_key = FALSE
          /\ diagrams \in DiagramArgs
          /\ render \in [SvgIds -> Renders]
          /\ \A v \in SvgIds \ SvgsOf(diagrams) : render[v] = "none"
       \/ /\ paper_text \in TextsUpTo(OptionLineCatalogue, MaxOptionLines)
                            \cup TextsUpTo(InstrLineCatalogue, MaxInstrLines)
                            \cup TextsUpTo(TableLineCatalogue, MaxTableLines)
                            \cup TextsUpTo(HeadingLineCatalogue, MaxHeadingLines)
          /\ answer_key = NoKey
          /\ include_key = FALSE
          /\ diagrams = NoDiagrams
          /\ render = [v \in SvgIds |-> "none"]
    /\ IdleLLM /\ IdleSplit /\ IdleStruct /\ IdleProc /\ IdleDl /\ IdleGen /\ IdleBp

NextPdf ==
    \/ CreateExamPdf
    \/ PaperLine
    \/ EndOfPaper
    \/ KeyLine
    \/ Build

SpecPdf == InitPdf /\ [][NextPdf]_vars

\* the styles of the flowables of the answer-key section
KeyStyles == {"KTitle", "KSec", "KQ", "KSub", "KStep"}

\* a character of str is not white space
NonBlank(str) == \E i \in 1..Len(str) : str[i] \notin WhiteSpace

PageBreaks == {i \in 1..Len(elems) : elems[i].kind = "PageBreak"}

KeyFlowables == {i \in 1..Len(elems) : elems[i].style \in KeyStyles}

\* C9: the built element list holds a page break followed by the answer-key
\* section if and only if the key was requested and the key text is not
\* blank; otherwise it ends with the paper body, with no page break and no
\* answer-key element.  No page break is written before the paper ends.
C9_KeySectionIffRequested ==
    /\ pdf_pc \in {"start", "body", "build", "raised"} =>
          PageBreaks = {} /\ KeyFlowables = {}
    /\ pdf_pc = "done" =>
          IF include_key /\ ~answer_key.none /\ NonBlank(answer_key.str)
          THEN \E p \in 1..Len(elems) :
                  /\ PageBreaks = {p}
                  /\ p + 1 \in KeyFlowables
                  /\ elems[p + 1].style = "KTitle"
                  /\ \A i \in KeyFlowables : i > p
          ELSE PageBreaks = {} /\ KeyFlowables = {}

\* a built PDF with the key section after the paper
C9_Witness ==
    /\ pdf_pc = "done"
    /\ include_key /\ NonBlank(answer_key.str)
    /\ PageBreaks # {}
    /\ \E i \in KeyFlowables : elems[i].style = "KQ"
    /\ \E i \in 1..Len(elems) : elems[i].style = "Q"

\* C10: no failure to resolve a diagram aborts create_exam_pdf: after every
\* placeholder line the elements end with the caption, then the blank box
\* (or the image, when the resolution succeeded), then the spacer, and the
\* loop goes on with the next line.
C10_ResolutionFailureNotFatal ==
    /\ pdf_pc # "raised"
    /\ (pdf_pc = "body" /\ i_line >= 1
            /\ IsDiagramLine(Strip(lines[i_line]))) =>
          LET n == Len(elems)
          IN  /\ elems[n] = Spacer
              /\ \/ /\ elems[n - 1].style = "DiagramBox"
                    /\ elems[n - 2].style = "DiagLabel"
                 \/ /\ elems[n - 1].style \in {"Image", "Drawing"}
                    /\ elems[n - 3].style = "DiagLabel"

\* the patterns of the loop that a line matches, by themselves: a table
\* row, a diagram placeholder, a section header, an option
TableRowPattern(raw) == _is_table_row(RStrip(raw))
DiagramPattern(raw) == IsDiagramLine(Strip(RStrip(raw)))
SectionHeaderPattern(raw) ==
    _is_sec_hdr(RStrip(raw)) /\ ~_is_general_instr(Strip(RStrip(raw)))
OptionPattern(raw) ==
    /\ ReMatch(RE_opt_m, Strip(RStrip(raw)))
    /\ ~ReMatch(RE_q_prefix, Strip(RStrip(raw)))

LineBranches ==
    {"table row", "blank", "header metadata", "figure junk", "figure label",
     "rule", "diagram", "instructions header", "section header",
     "instruction item", "option", "options in line", "question", "sub-part",
     "plain"}

\* a line of the paper has just been handled
LineHandled == pdf_pc \in {"body", "raised"} /\ i_line >= 1

\* C17: every line of the paper takes exactly one branch of the loop, and a
\* line that matches several patterns takes the branch of the first it
\* matches in the order table row, diagram placeholder, section header,
\* option, plain text.
C17_OneBranchByPriority ==
    LineHandled =>
        LET ByPriority(isTable, isDiagram, isHeader, isOption) ==
                /\ branch \in LineBranches
                /\ isTable => branch = "table row"
                /\ (~isTable /\ isDiagram) => branch = "diagram"
                /\ (~isTable /\ ~isDiagram /\ isHeader) => branch = "section header"
                /\ (~isTable /\ ~isDiagram /\ ~isHeader /\ isOption)
                       => branch = "option"
                /\ branch = "plain"
                       => ~(isTable \/ isDiagram \/ isHeader \/ isOption)
        IN  ByPriority(TableRowPattern(lines[i_line]), DiagramPattern(lines[i_line]),
                       SectionHeaderPattern(lines[i_line]), OptionPattern(lines[i_line]))

\* a line that matches the pattern of an option and the pattern of a
\* sub-part, and would do as plain text, has been handled as an option; a
\* table row has been handled before it
C17_Witness ==
    /\ pdf_pc = "body" /\ i_line = 2
    /\ TableRowPattern(lines[1])
    /\ OptionPattern(lines[2]) /\ ReMatch(RE_sub_m, Strip(lines[2]))
    /\ branch = "option"

BlankLine(raw) == Strip(RStrip(raw)) = <<>>
InstructionsHeader(raw) ==
    ~TableRowPattern(raw) /\ _is_general_instr(Strip(RStrip(raw)))
NumberedLine(raw) == ReMatch(RE_q_m, Strip(RStrip(raw)))

\* C18: a numbered line is skipped as an instruction item only while no
\* blank line and no section header has been seen since the 'General
\* Instructions' header; a numbered line that follows a blank line is
\* rendered as a question.
C18_InstructionBlockEndsAtBlankLine ==
    (pdf_pc = "body" /\ i_line >= 1) =>
        /\ branch = "instruction item" =>
              \E h \in 1..(i_line - 1) :
                  /\ InstructionsHeader(lines[h])
                  /\ \A j \in (h + 1)..(i_line - 1) :
                         ~BlankLine(lines[j]) /\ ~SectionHeaderPattern(lines[j])
        /\ (i_line >= 2 /\ BlankLine(lines[i_line - 1]) /\ NumberedLine(lines[i_line]))
              => branch = "question"

\* C19: after any line that is not an option line has been read, the lines
\* that are dropped included, the buffer of pending options is empty.
C19_NonOptionLineFlushes ==
    (pdf_pc = "body" /\ i_line >= 1 /\ branch # "option") => pending_opts = <<>>

\* the entry of the buffer that an option line makes, lines 700-702
OptionOf(raw) ==
    LET Entry(s, m) == <<LowerStr(GroupOf(s, m, 1)), _process(GroupOf(s, m, 2))>>
        Of(s) == Entry(s, ReFirst(RE_opt_m, s, 1))
    IN  Of(Strip(RStrip(raw)))

\* the lines k..k+3 are a block of four option lines: four option lines
\* with no option line before them
OptionBlock(k) ==
    /\ k >= 1 /\ k + 3 <= Len(lines)
    /\ \A j \in k..(k + 3) : OptionPattern(lines[j])
    /\ k > 1 => ~OptionPattern(lines[k - 1])

\* C20: a block of four option lines makes exactly one options table, of
\* those four options in their order; a fifth lettered line after it is not
\* in that table; and at the start of every iteration the buffer holds at
\* most 3 entries.
C20_FourOptionsOneTable ==
    pdf_pc = "body" =>
        /\ Len(pending_opts) <= 3
        /\ (i_line >= 4 /\ OptionBlock(i_line - 3)) =>
              /\ pending_opts = <<>>
              /\ elems[Len(elems)] = Spacer
              /\ elems[Len(elems) - 1] =
                     _opts_table([j \in 1..4 |-> OptionOf(lines[i_line - 4 + j])])
        /\ (i_line >= 5 /\ OptionBlock(i_line - 4) /\ OptionPattern(lines[i_line])) =>
              pending_opts = <<OptionOf(lines[i_line])>>

\* the rows of the maximal run of table rows that ends at line j: the cells
\* of its lines that the loop buffers, in their order
RECURSIVE RunRows(_)
RunRows(j) ==
    IF j = 0 \/ ~TableRowPattern(lines[j]) THEN <<>>
    ELSE RunRows(j - 1) \o
         (IF _is_divider(RStrip(lines[j])) \/ Cells(RStrip(lines[j])) = <<>>
          THEN <<>>
          ELSE <<Cells(RStrip(lines[j]))>>)

IsPipeTable(f) == f.kind = "Table" /\ f.style = "Pipe"
PipeTables(es) == SelectSeq(es, IsPipeTable)

\* the step emits one table, and if the run that ends at the line i_line
\* has rows, the elements after the step begin with the elements before it
\* and the table of those rows
RunTableFirst ==
    /\ Len(PipeTables(elems')) = Len(PipeTables(elems)) + 1
    /\ RunRows(i_line) # <<>> =>
          /\ Len(elems') >= Len(elems) + 3
          /\ SubSeq(elems', 1, Len(elems) + 3)
                 = elems \o <<Spacer, _pipe_table(RunRows(i_line)), Spacer>>

\* a run of table rows ends at line j
RunEndsAt(j) == j >= 1 /\ TableRowPattern(lines[j])

\* the step reads the first line after a run, or ends the paper after one
LeavesRun ==
    /\ pdf_pc = "body" /\ RunEndsAt(i_line)
    /\ \/ i_line' = i_line + 1 /\ ~TableRowPattern(lines[i_line + 1])
       \/ pdf_pc' \in {"key", "build"}

\* C21: every maximal run of table rows makes exactly one table, of the rows
\* of the run in their order; the table is emitted when the first line that
\* is no table row is read, before any element of that line, or at the end
\* of the paper; no other step emits a table.
C21_EveryRunOneTable ==
    [][ IF LeavesRun THEN RunTableFirst
        ELSE PipeTables(elems') = PipeTables(elems) ]_vars

\* C21, amended: a maximal run of table rows of which the loop buffered at
\* least one row makes exactly one table, of the buffered rows of the run in
\* their order, emitted when the first line that is no table row is read,
\* before any element of that line, or at the end of the paper; a run of
\* which every line was dropped makes no table, and no other step emits one.
C21_RunWithRowsOneTable ==
    [][ IF LeavesRun /\ RunRows(i_line) # <<>> THEN RunTableFirst
        ELSE PipeTables(elems') = PipeTables(elems) ]_vars

\* two runs of one row each, with a line of text between them, have made
\* two tables
C21_Witness ==
    /\ pdf_pc = "build" /\ Len(lines) = 3
    /\ TableRowPattern(lines[1]) /\ ~TableRowPattern(lines[2])
    /\ TableRowPattern(lines[3])
    /\ Len(PipeTables(elems)) = 2
    /\ PipeTables(elems)[1] = _pipe_table(<<Cells(lines[1])>>)
    /\ PipeTables(elems)[2] = _pipe_table(<<Cells(lines[3])>>)

\* a divider row: dashes, colons, pipes and white space only
DividerRow(raw) == \A c \in Range(raw) : c \in {"-", ":", "|"} \cup WhiteSpace

\* C22: a table row that is a divider row is dropped: no row of the row
\* buffer, from which every table is made, is made of dashes and colons
\* only.
C22_DividerRowsDropped ==
    \A k \in 1..Len(tbl_rows) :
        \E j \in 1..Len(tbl_rows[k]) :
            \E c \in Range(tbl_rows[k][j]) : c \notin {"-", ":"}

\* C23: a table row with a cell that holds a character other than a dash,
\* a colon, a pipe or white space is not dropped: when it has been read its
\* cells are the last row of the row buffer.
C23_NoDataRowLost ==
    (pdf_pc = "body" /\ i_line >= 1 /\ TableRowPattern(lines[i_line])
         /\ ~DividerRow(lines[i_line])) =>
        /\ tbl_rows # <<>>
        /\ tbl_rows[Len(tbl_rows)] = Cells(RStrip(lines[i_line]))

\* the pipes of a line
Pipes(raw) == Cardinality({i \in 1..Len(raw) : raw[i] = "|"})

\* C24: a line is handled as a table row if and only if it starts with a
\* pipe and holds at least two pipes.
C24_TableRowIffTwoPipes ==
    LineHandled =>
        (branch = "table row" <=>
            /\ StartsWithAt(Strip(lines[i_line]), 1, <<"|">>)
            /\ Pipes(lines[i_line]) >= 2)

\* a line that begins with (a), (b), (c) or (d)
Lettered(raw) ==
    LET Begins(s) == Len(s) >= 3 /\ s[1] = "(" /\ s[2] \in {"a", "b", "c", "d"}
                     /\ s[3] = ")"
    IN  Begins(Strip(raw))

IsOptsTable(f) == f.kind = "Table" /\ f.style = "Opt"
IsSubPart(f) == f.kind = "Paragraph" /\ f.style = "QSub"

\* C25: a line beginning with (a), (b), (c) or (d) is put in an options table
\* only in a group of 4 consecutive such lines; when the only such line of
\* the paper so far has been followed by another line, it has been rendered
\* as a sub-part paragraph and no options table has been made.
C25_IsolatedLetteredLineIsSubPart ==
    (pdf_pc = "body" /\ i_line >= 2 /\ Lettered(lines[i_line - 1])
         /\ \A j \in 1..i_line : j # i_line - 1 => ~Lettered(lines[j])) =>
        /\ \A k \in 1..Len(elems) : ~IsOptsTable(elems[k])
        /\ \E k \in 1..Len(elems) : IsSubPart(elems[k])

\* the headings of the claim: SECTION or PART and a letter or a numeral of
\* letters, or one of the literal headers
HeadingWords == {Chars("SECTION"), Chars("Section"), Chars("PART"), Chars("Part")}
LiteralHeaders ==
    {Chars("GENERAL INSTRUCTIONS"), Chars("General Instructions"),
     Chars("Instructions"), Chars("Note:"), Chars("NOTE:")}

Heading(raw) ==
    LET Letters == UpperCase \cup LowerCase
        \* white space, then letters, then the end, white space, - or :
        Lettering(rest) ==
            /\ rest # <<>> /\ rest[1] \in WhiteSpace
            /\ LET body == LStrip(rest)
                   k    == CHOOSE n \in 0..Len(body) :
                               /\ \A i \in 1..n : body[i] \in Letters
                               /\ n < Len(body) => body[n + 1] \notin Letters
               IN  /\ k >= 1
                   /\ k < Len(body) => body[k + 1] \in WhiteSpace \cup {"-", ":"}
        Of(s) ==
            \/ s \in LiteralHeaders
            \/ \E w \in HeadingWords :
                   /\ StartsWithAt(s, 1, w)
                   /\ Lettering(SubSeq(s, Len(w) + 1, Len(s)))
    IN  Of(Strip(raw))

\* C26: every line 'SECTION <letter>' or 'PART <letter>', the headings
\* 'Section I' to 'Section VII' included, and every literal header line is
\* handled as a section header and rendered as a banner.
C26_HeadingsAreBanners ==
    (pdf_pc = "body" /\ i_line >= 1 /\ Heading(lines[i_line])) =>
        /\ branch = "section header"
        /\ Len(elems) >= 2
        /\ elems[Len(elems) - 1] = _sec_banner(Strip(lines[i_line]))

\* the words the description desc shares with the key of entry k
Overlap(desc, k) ==
    Cardinality(Words(desc) \cap Words(diagrams.items[k][1]))

\* the entries of the dict with an SVG that is not empty
WithSvg == {k \in 1..Len(diagrams.items) : diagrams.items[k][2] # ""}

\* the exact match of lines 623-624 gives an image
ExactYields(desc) ==
    \E k \in WithSvg :
        /\ diagrams.items[k][1] = desc
        /\ render[diagrams.items[k][2]] \in {"png", "drawing"}

\* C27: when the exact match gives no image, a diagram is embedded only if
\* it has an SVG that is not empty, shares at least 2 words with the
\* description, and no diagram with an SVG shares more; when no diagram
\* with an SVG shares 2 words, the placeholder box is used.
C27_FuzzyMaxOverlapAtLeastTwo ==
    (pdf_pc = "body" /\ i_line >= 1 /\ branch = "diagram") =>
        LET Fuzzy(desc, placed) ==
                ~ExactYields(desc) =>
                    /\ placed.style \in {"Image", "Drawing"} =>
                          \E k \in WithSvg :
                              /\ placed.body = <<diagrams.items[k][1]>>
                              /\ Overlap(desc, k) >= 2
                              /\ \A j \in WithSvg : Overlap(desc, j) <= Overlap(desc, k)
                    /\ (diagrams.none \/ \A j \in WithSvg : Overlap(desc, j) < 2) =>
                          placed.style = "DiagramBox"
        IN  Fuzzy(DiagramDesc(Strip(lines[i_line])), elems[Len(elems) - 1])

\* a diagram that shares 2 words with the description has been embedded for
\* it, after a diagram that shares 1 word was passed over
C27_Witness ==
    /\ pdf_pc = "body" /\ i_line = 1 /\ branch = "diagram"
    /\ ~diagrams.none /\ Len(diagrams.items) = 2 /\ WithSvg = {1, 2}
    /\ Overlap(DiagramDesc(Strip(lines[1])), 1) = 1
    /\ Overlap(DiagramDesc(Strip(lines[1])), 2) = 2
    /\ elems[Len(elems) - 1].style \in {"Image", "Drawing"}
    /\ elems[Len(elems) - 1].body = <<diagrams.items[2][1]>>

(***************************************************************************)
(* download_pdf, lines 3068-3123: the request is read, the placeholder     *)
(* descriptions are collected, one generate_diagram_svg task per distinct  *)
(* description runs on a ThreadPoolExecutor, the results are collected as  *)
(* the futures complete, and create_exam_pdf is called after the pool's    *)
(* with block.  A pool thread takes the tasks in submission order.         *)
(* as_completed(futures) is given no timeout and yields a future only once *)
(* it is done, so future.result(timeout=30) of line 3104 never waits; the  *)
(* exit of the with block waits for every task (shutdown(wait=True)).      *)
(* model.generate_content is called with no timeout (line 876): a task     *)
(* whose call never returns stays on its worker ("hung").                  *)
(***************************************************************************)
\* line 3099: max_workers=min(4, len(unique_descs))
MaxPool == 4

\* lines 3086-3088, re.IGNORECASE:  \[DIAGRAM:\s*([^\]]+)\]|\[draw\s+([^\]]+)\]
RE_diag_descs ==
    RCat(<<
      RStr(Chars("[")),
      RAlt(<<
        RCat(<<
          RStrI(Chars("DIAGRAM")),
          RStr(Chars(":")),
          RStar(RSet(WhiteSpace)),
          RGrp(1, RPlus(RNot({"]"}))),
          RStr(Chars("]"))
        >>),
        RCat(<<
          RStrI(Chars("draw")),
          RPlus(RSet(WhiteSpace)),
          RGrp(2, RPlus(RNot({"]"}))),
          RStr(Chars("]"))
        >>)
      >>)
    >>)

\* line 3085: paper_text + "\n" + (answer_key or "")
FullText(p, k) == p \o <<"\n">> \o (IF k.none THEN <<>> ELSE k.str)

\* lines 3086-3088 and 3092: (d1 or d2).strip() of every match, in order
DiagDescs(s) ==
    LET Of(ms) ==
            [k \in 1..Len(ms) |->
                Strip(IF GroupOf(s, ms[k][2], 1) # <<>>
                      THEN GroupOf(s, ms[k][2], 1)
                      ELSE GroupOf(s, ms[k][2], 2))]
    IN  Of(ReFindAll(RE_diag_descs, s, 1))

\* lines 3089-3095 without the test of seen
Unique_KeepingDuplicates(ds, k, acc) ==
    acc \o SelectSeq(SubSeq(ds, k, Len(ds)), LAMBDA d : d # <<>>)

RECURSIVE Unique(_, _, _)
\* lines 3089-3095: the loop from match k on; acc is unique_descs (and seen)
Unique(ds, k, acc) ==
    IF k > Len(ds) THEN acc
    ELSE Unique(ds, k + 1,
                IF ds[k] # <<>> /\ ds[k] \notin Range(acc)
                THEN Append(acc, ds[k]) ELSE acc)

\* the tasks that hold a pool thread
InFlight == {k \in 1..Len(futures) : futures[k] \in {"running", "hung"}}

\* the futures that are done: generate_diagram_svg returned an SVG, returned
\* None, or raised
DoneStates == {"svg", "none", "raised"}

dlArgs == <<dl_paper, dl_key>>

\* lines 3071-3101: the request is read; a blank paper is answered 400;
\* otherwise the descriptions are collected (only when the LLM client is
\* configured) and every one is submitted to the pool
DownloadPdf ==
    /\ dl_pc = "start"
    /\ IF Strip(dl_paper) = <<>>
       THEN /\ dl_pc' = "responded"
            /\ dl_status' = 400
            /\ unique_descs' = <<>>
            /\ futures' = <<>>
            /\ dl_runs' = <<>>
       ELSE \E ds \in {IF configured
                       THEN Unique(DiagDescs(FullText(dl_paper, dl_key)), 1, <<>>)
                       ELSE <<>>} :
               /\ unique_descs' = ds
               /\ futures' = [k \in 1..Len(ds) |-> "queued"]
               /\ dl_runs' = [k \in 1..Len(ds) |-> 0]
               /\ dl_pc' = IF ds # <<>> THEN "pool" ELSE "assemble"
               /\ dl_status' = 0
    /\ dl_diagrams' = <<>>
    /\ dl_collected' = {}
    /\ UNCHANGED dlArgs
    /\ UNCHANGED nonDl

\* a free pool thread takes the oldest queued task and calls
\* generate_diagram_svg (line 3100)
WorkerStart(k) ==
    /\ dl_pc = "pool"
    /\ futures[k] = "queued"
    /\ \A j \in 1..(k - 1) : futures[j] # "queued"
    /\ Cardinality(InFlight) <
          (IF Len(unique_descs) < MaxPool THEN Len(unique_descs) ELSE MaxPool)
    /\ futures' = [futures EXCEPT ![k] = "running"]
    /\ dl_runs' = [dl_runs EXCEPT ![k] = @ + 1]
    /\ UNCHANGED <<unique_descs, dl_collected, dl_diagrams, dl_pc, dl_status>>
    /\ UNCHANGED dlArgs
    /\ UNCHANGED nonDl

\* generate_diagram_svg (lines 2451-2523) returns an SVG, returns None, or
\* raises
TaskReturn(k) ==
    /\ dl_pc = "pool"
    /\ futures[k] = "running"
    /\ \E out \in DoneStates : futures' = [futures EXCEPT ![k] = out]
    /\ UNCHANGED <<unique_descs, dl_runs, dl_collected, dl_diagrams, dl_pc, dl_status>>
    /\ UNCHANGED dlArgs
    /\ UNCHANGED nonDl

\* model.generate_content (line 876) never returns
TaskHang(k) ==
    /\ dl_pc = "pool"
    /\ futures[k] = "running"
    /\ futures' = [futures EXCEPT ![k] = "hung"]
    /\ UNCHANGED <<unique_descs, dl_runs, dl_collected, dl_diagrams, dl_pc, dl_status>>
    /\ UNCHANGED dlArgs
    /\ UNCHANGED nonDl

\* lines 3101-3109: as_completed yields a done future; its SVG, if any, is
\* put in the dict, an exception is swallowed
Collect(k) ==
    /\ dl_pc = "pool"
    /\ futures[k] \in DoneStates
    /\ k \notin dl_collected
    /\ dl_collected' = dl_collected \cup {k}
    /\ dl_diagrams' = IF futures[k] = "svg"
                      THEN Append(dl_diagrams, <<unique_descs[k], k>>)
                      ELSE dl_diagrams
    /\ UNCHANGED <<unique_descs, futures, dl_runs, dl_pc, dl_status>>
    /\ UNCHANGED dlArgs
    /\ UNCHANGED nonDl

\* the loop of line 3101 has yielded every future and the with block of
\* line 3099 is left
LeavePool ==
    /\ dl_pc = "pool"
    /\ dl_collected = 1..Len(futures)
    /\ dl_pc' = "assemble"
    /\ UNCHANGED <<unique_descs, futures, dl_runs, dl_collected, dl_diagrams, dl_status>>
    /\ UNCHANGED dlArgs
    /\ UNCHANGED nonDl

\* lines 3111-3123: create_exam_pdf returns the PDF, or raises and the
\* handler answers 500
Assemble ==
    /\ dl_pc = "assemble"
    /\ dl_pc' = "responded"
    /\ \E st \in {200, 500} : dl_status' = st
    /\ UNCHANGED <<unique_descs, futures, dl_runs, dl_collected, dl_diagrams>>
    /\ UNCHANGED dlArgs
    /\ UNCHANGED nonDl

\* the paper of a request
DlPapers ==
    { <<>>, Chars(" \n"), Chars("x"),
      Chars("[DIAGRAM: a]"),
      Chars("[DIAGRAM: a] [draw a ]"),
      Chars("[diagram:a]\n[DRAW  b]"),
      Chars("[DIAGRAM: ]") }

\* a paper of more placeholders than the pool has threads
DlLongPaper == Chars("[DIAGRAM:a][draw b][draw c][draw d][draw e]")

\* the answer key of a request
DlKeys ==
    {NoKey} \cup
    {[none |-> FALSE, str |-> k] : k \in { <<>>, Chars("[draw a]"), Chars("[draw f]") }}

\* the requests: every paper with every key, and the long paper
DlRequests == (DlPapers \X DlKeys) \cup {<<DlLongPaper, NoKey>>}

\* the request rq has arrived
DlStart(rq) ==
    /\ dl_paper = rq[1] /\ dl_key = rq[2]
    /\ unique_descs = <<>>
    /\ futures = <<>>
    /\ dl_runs = <<>>
    /\ dl_collected = {}
    /\ dl_diagrams = <<>>
    /\ dl_pc = "start"
    /\ dl_status = 0
    /\ InitLLM /\ IdleSplit /\ IdleStruct /\ IdleProc /\ IdlePdf /\ IdleGen /\ IdleBp

InitDl == \E rq \in DlRequests : DlStart(rq)

\* the requests of the papers of at most two placeholders
InitDlShort == \E rq \in DlPapers \X DlKeys : DlStart(rq)

\* the steps of the pool threads and of the handler once the tasks are
\* submitted
AfterSubmit ==
    \/ \E k \in 1..Len(futures) : WorkerStart(k)
    \/ \E k \in 1..Len(futures) : TaskReturn(k)
    \/ \E k \in 1..Len(futures) : TaskHang(k)
    \/ \E k \in 1..Len(futures) : Collect(k)
    \/ LeavePool
    \/ Assemble

NextDl ==
    \/ DownloadPdf
    \/ AfterSubmit

SpecDl == InitDl /\ [][NextDl]_vars

\* once the tasks are submitted, a thread that can take a step takes one
SpecDlFair == InitDlShort /\ [][NextDl]_vars /\ WF_vars(AfterSubmit)

\* the descriptions of the placeholders in the text of the request
Placeholders == Range(DiagDescs(FullText(dl_paper, dl_key))) \ {<<>>}

\* the request was not refused: its paper is not blank
Accepted ==
    \/ dl_pc \in {"pool", "assemble"}
    \/ dl_pc = "responded" /\ dl_status # 400

\* what C11 says of the pool, of the join and of the diagram map, apart from
\* which descriptions are submitted
PoolDiscipline ==
    /\ Cardinality(InFlight) <= MaxPool
    /\ Len(futures) = Len(unique_descs)
    /\ \A i, j \in 1..Len(unique_descs) :
          unique_descs[i] = unique_descs[j] => i = j
    /\ \A k \in 1..Len(futures) : dl_runs[k] <= 1
    /\ dl_pc \in {"assemble", "responded"} =>
          /\ \A k \in 1..Len(futures) : futures[k] \in DoneStates /\ dl_runs[k] = 1
          /\ dl_collected = 1..Len(futures)
    /\ Range(dl_diagrams) =
          {<<unique_descs[k], k>> : k \in {j \in dl_collected : futures[j] = "svg"}}
    /\ Len(dl_diagrams) = Cardinality(Range(dl_diagrams))

\* C11 as stated: in every request at most 4 generation calls run at a time,
\* each distinct placeholder description is submitted exactly once, the PDF
\* is assembled only after every submitted task has finished, and the
\* diagram map holds exactly the results of the tasks that returned an SVG,
\* none of them run twice.
C11_EveryDescriptionSubmittedOnce ==
    /\ PoolDiscipline
    /\ dl_pc # "start" => Range(unique_descs) = Placeholders

\* C11, amended: the same, where the descriptions are submitted only in a
\* request that is not refused for a blank paper and only when the LLM
\* client is configured; otherwise no task is submitted and the map is empty.
C11_SubmittedOnceWhenConfigured ==
    /\ PoolDiscipline
    /\ dl_pc # "start" =>
          Range(unique_descs) = IF Accepted /\ configured THEN Placeholders ELSE {}

\* a request of five placeholders answered with the PDF, one task having
\* returned an SVG, one None, and one having raised
C11_Witness ==
    /\ dl_pc = "responded" /\ dl_status = 200
    /\ Len(futures) > MaxPool
    /\ dl_diagrams # <<>>
    /\ \E k \in 1..Len(futures) : futures[k] = "none"
    /\ \E k \in 1..Len(futures) : futures[k] = "raised"

\* C12: a diagram task that never completes is skipped after its timeout,
\* and the request still reaches PDF assembly and is answered.
C12_HungTaskStillAnswered ==
    (\E k \in 1..Len(futures) : futures[k] = "hung") ~> (dl_pc = "responded")

\* the dict is the one download_pdf builds for this paper when every
\* generate_diagram_svg call returned an SVG (lines 3085-3107): its keys are
\* the distinct descriptions of the placeholders, in the order the futures
\* completed in, and every SVG converts to an image
StoredByDownload ==
    /\ HasDiagrams
    /\ {diagrams.items[k][1] : k \in 1..Len(diagrams.items)} =
          Range(Unique(DiagDescs(FullText(paper_text, answer_key)), 1, <<>>))
    /\ \A k \in 1..Len(diagrams.items) :
          /\ diagrams.items[k][2] # ""
          /\ render[diagrams.items[k][2]] \in {"png", "drawing"}

\* the description download_pdf stores the diagram of the line raw under
StoredDesc(raw) == DiagDescs(raw)[1]

\* C28: the diagram download_pdf generated for a placeholder line, stored
\* under the description lines 3086-3092 take from the line, is the diagram
\* create_exam_pdf embeds at that line.
C28_GeneratedDiagramEmbedded ==
    ( /\ pdf_pc = "body" /\ i_line >= 1 /\ branch = "diagram"
      /\ StoredByDownload
      /\ DiagDescs(lines[i_line]) # <<>> ) =>
        LET placed == elems[Len(elems) - 1]
        IN  /\ placed.style \in {"Image", "Drawing"}
            /\ placed.body = <<StoredDesc(lines[i_line])>>

(***************************************************************************)
(* POST /generate in the three revisions: src/app.py lines 3016-3065,      *)
(* src/api/index.py lines 319-380, src/api/app.py lines 67-158.  A field   *)
(* of the JSON body is absent, null, a string or a number.                 *)
(***************************************************************************)
Absent == [t |-> "absent", s |-> <<>>, n |-> 0]
Null == [t |-> "null", s |-> <<>>, n |-> 0]
JStr(s) == [t |-> "str", s |-> s, n |-> 0]
JNum(n) == [t |-> "int", s |-> <<>>, n |-> n]

\* bool(x) of a field
Truthy(x) == (x.t = "str" /\ x.s # <<>>) \/ (x.t = "int" /\ x.n # 0)

\* (data.get(f) or default).strip() raises AttributeError on a number that
\* is not 0
StripRaises(x) == x.t = "int" /\ x.n # 0

\* int(x) of a truthy field returns: a number, or a string of an optional
\* sign and digits with white space around
IntParses(x) ==
    \/ x.t = "int"
    \/ /\ x.t = "str"
       /\ LET b == Strip(x.s)
              d == IF b # <<>> /\ b[1] \in {"+", "-"} THEN Tail(b) ELSE b
          IN  d # <<>> /\ \A i \in 1..Len(d) : d[i] \in Digits

Response(status, success, cause, error) ==
    [status |-> status, success |-> success, cause |-> cause, error |-> error]

\* what the LLM client comes to: a text, or a failure (an exception, or no
\* text from any model)
LlmOutcomes == {"text", "fail"}

genArgs == <<gen_key, gen_lib, gen_data>>

\* the handler has answered: revision rev, response r, calls LLM calls made,
\* built whether a prompt was built
Answered(rev, r, llm_calls, built) ==
    /\ gen_pc = "start"
    /\ gen_pc' = "done"
    /\ gen_rev' = rev
    /\ gen_resp' = r
    /\ gen_llm_calls' = llm_calls
    /\ gen_prompt_built' = built
    /\ UNCHANGED genArgs
    /\ UNCHANGED nonGen

\* src/app.py lines 3019-3034: the first field whose .strip() raises, or
\* "none"
FirstRaising(d) ==
    IF StripRaises(d["class"]) THEN "class"
    ELSE IF StripRaises(d["subject"]) THEN "subject"
    ELSE IF StripRaises(d["marks"]) THEN "marks"
    ELSE IF StripRaises(d["board"]) THEN "board"
    ELSE "none"

\* src/app.py lines 3016-3065; call_gemini (lines 864-890) reaches the LLM
\* only with the key and the library, and gen_llm_calls counts its runs
\* that do
GenerateApp ==
    \E llm \in LlmOutcomes :
        LET d            == gen_data
            use_fallback == d.use_fallback
            built        == ~Truthy(d.prompt)
            called       == ~use_fallback /\ gen_key /\ gen_lib
            n_calls        == IF called THEN 1 ELSE 0
        IN  IF FirstRaising(d) # "none"
            THEN Answered("app",
                     Response(500, FALSE, FirstRaising(d), "exception"), 0, FALSE)
            ELSE IF called /\ llm = "text"
            THEN Answered("app", Response(200, TRUE, "none", "none"), n_calls, built)
            ELSE IF use_fallback \/ ~gen_key
            THEN Answered("app", Response(200, TRUE, "none", "none"), n_calls, built)
            ELSE Answered("app", Response(502, FALSE, "none", "AI generation failed."),
                          n_calls, built)

\* src/api/index.py lines 333-335: the first of the required fields that
\* is missing after the defaults of lines 328-330, or "none"
FirstMissing(d) ==
    LET present(f) == IF f \in {"board", "marks"} /\ d[f].t = "absent"
                      THEN TRUE ELSE Truthy(d[f])
    IN  IF ~present("class") THEN "class"
        ELSE IF ~present("board") THEN "board"
        ELSE IF ~present("subject") THEN "subject"
        ELSE IF ~present("marks") THEN "marks"
        ELSE "none"

\* src/api/index.py lines 319-380
GenerateIndex ==
    \E llm \in LlmOutcomes :
        LET d == gen_data
        IN  IF ~gen_key
            THEN Answered("index",
                     Response(500, FALSE, "none",
                              "OpenAI API key not configured on server"),
                     0, FALSE)
            ELSE IF FirstMissing(d) # "none"
            THEN Answered("index",
                     Response(400, FALSE, FirstMissing(d), "is required"), 0, FALSE)
            ELSE IF d.marks.t # "absent" /\ ~IntParses(d.marks)
            THEN Answered("index",
                     Response(400, FALSE, "marks", "must be a number"), 0, FALSE)
            ELSE IF llm = "text"
            THEN Answered("index", Response(200, TRUE, "none", "none"), 1, TRUE)
            ELSE Answered("index", Response(500, FALSE, "none", "exception"), 1, TRUE)

\* src/api/app.py lines 67-158
GenerateApiApp ==
    \E llm \in LlmOutcomes :
        IF ~gen_key
        THEN Answered("api_app",
                 Response(500, FALSE, "none",
                          "API key not configured. Please set OPENAI_API_KEY environment variable."),
                 0, FALSE)
        ELSE IF llm = "text"
        THEN Answered("api_app", Response(200, TRUE, "none", "none"), 1, TRUE)
        ELSE Answered("api_app", Response(500, FALSE, "none", "exception"), 1, TRUE)

\* the values of the marks field
MarksValues ==
    {Absent, Null} \cup {JNum(n) : n \in {-5, 0, 5, 50}}
    \cup {JStr(s) : s \in { <<>>, Chars("50"), Chars("abc"), Chars(" 7 "),
                            Chars("5.5"), Chars("-5"), Chars("0") }}

\* the bodies of the requests
GenBodies ==
    [class : {Absent, JStr(<<>>), JStr(Chars("10")), JNum(10)},
     subject : {Absent, JStr(Chars("Maths"))},
     board : {Absent, Null, JStr(Chars("CBSE")), JNum(1)},
     marks : MarksValues,
     prompt : {Absent, JStr(Chars("p"))},
     use_fallback : BOOLEAN]

InitGen ==
    /\ gen_key \in BOOLEAN
    /\ gen_lib \in BOOLEAN
    /\ gen_data \in GenBodies
    /\ gen_rev = "none"
    /\ gen_resp = <<>>
    /\ gen_llm_calls = 0
    /\ gen_prompt_built = FALSE
    /\ gen_pc = "start"
    /\ IdleLLM /\ IdleSplit /\ IdleStruct /\ IdleProc /\ IdlePdf /\ IdleDl /\ IdleBp

NextGen ==
    \/ GenerateApp
    \/ GenerateIndex
    \/ GenerateApiApp

SpecGen == InitGen /\ [][NextGen]_vars

\* C13: in each revision, when no LLM API key is configured POST /generate
\* answers 500 with an error message, makes no LLM call, and does not
\* answer with success.
C13_NoKeyAnswers500 ==
    (gen_pc = "done" /\ ~gen_key) =>
        /\ gen_resp.status = 500
        /\ ~gen_resp.success
        /\ gen_resp.error # "none"
        /\ gen_llm_calls = 0

\* the marks field holds text that is no number
MarksNotNumeric == gen_data.marks.t = "str" /\ Strip(gen_data.marks.s) # <<>>
                   /\ ~IntParses(gen_data.marks)

\* the marks field holds a positive number, as a JSON number or as a string
\* of digits
MarksValidNumber ==
    \/ gen_data.marks.t = "int" /\ gen_data.marks.n > 0
    \/ /\ gen_data.marks.t = "str" /\ gen_data.marks.s # <<>>
       /\ \A i \in 1..Len(gen_data.marks.s) : gen_data.marks.s[i] \in Digits
       /\ \E i \in 1..Len(gen_data.marks.s) : gen_data.marks.s[i] # "0"

\* a required field (class, subject) is absent or empty
LacksRequired == \E f \in {"class", "subject"} : ~Truthy(gen_data[f])

\* C14: with the key configured, a request whose marks are not numeric or
\* that lacks a required field is answered 400 naming the field, no prompt
\* is built and no LLM call is made for it; a request whose marks are a valid
\* number is never refused because of its marks field.
C14_MalformedAnswered400 ==
    (gen_pc = "done" /\ gen_key) =>
        /\ (MarksNotNumeric \/ LacksRequired) =>
              /\ gen_resp.status = 400
              /\ gen_resp.cause # "none"
              /\ ~gen_prompt_built
              /\ gen_llm_calls = 0
        /\ MarksValidNumber => gen_resp.cause # "marks"

(***************************************************************************)
(* build_prompt, lines 1024-1057, with the templates it chooses from:      *)
(* _simple_state_board (lines 1112-1185), _simple_lower_class (lines       *)
(* 1188-1215) and _simple_competitive (lines 1218-1312).  A prompt is the  *)
(* sequence of its blocks; the block interpolated from math_notation is    *)
(* MathNotation for a STEM subject and the empty block otherwise.          *)
(***************************************************************************)
MinTotal == 10
DefaultTotal == 100

\* str(n) of a natural number
RECURSIVE NatStr(_)
NatStr(n) ==
    LET d == <<"0", "1", "2", "3", "4", "5", "6", "7", "8", "9">>
    IN  IF n < 10 THEN <<d[n + 1]>> ELSE NatStr(n \div 10) \o <<d[(n % 10) + 1]>>

\* str(x) of a string or a number
PyStr(x) ==
    IF x.t = "str" THEN x.s
    ELSE IF x.n < 0 THEN <<"-">> \o NatStr(-x.n) ELSE NatStr(x.n)

\* s.isdigit(): not empty, and digits only
IsDigitStr(s) == s # <<>> /\ \A i \in 1..Len(s) : IsDigit(s[i])

\* int(s) of a string of digits
RECURSIVE DigitsVal(_)
DigitsVal(s) ==
    IF s = <<>> THEN 0
    ELSE LET c == s[Len(s)]
             v == CHOOSE n \in 0..9 : NatStr(n) = <<c>>
         IN  10 * DigitsVal(SubSeq(s, 1, Len(s) - 1)) + v

\* line 1027
EffectiveTotal(marks_arg) ==
    Max(MinTotal,
        IF IsDigitStr(PyStr(marks_arg)) THEN DigitsVal(PyStr(marks_arg))
        ELSE DefaultTotal)

\* lines 1035-1038
StemWords ==
    {Chars("math"), Chars("maths"), Chars("science"), Chars("physics"),
     Chars("chemistry"), Chars("biology"), Chars("algebra"), Chars("geometry"),
     Chars("trigonometry"), Chars("statistics")}

is_stem(subject) == \E k \in StemWords : IsSub(k, LowerStr(subject))

MathNotation == "MATH NOTATION"

\* lines 1039-1044
math_notation(subject) == IF is_stem(subject) THEN MathNotation ELSE ""

\* line 1053: the first run of digits of the class, or 10
cls_n(cls) ==
    LET starts == {i \in 1..Len(cls) : IsDigit(cls[i])}
    IN  IF starts = {} THEN 10
        ELSE LET i == CHOOSE j \in starts : \A k \in starts : j <= k
             IN  DigitsVal(SubSeq(cls, i, DigitRunEnd(cls, i) - 1))

\* lines 1133-1185
StateBoardPrompt(m, mn) ==
    <<"examiner", "PAPER DETAILS", mn, "STRUCTURE", "RULES", "ANSWER KEY">>

\* lines 1190-1215
_simple_lower_class(mn) ==
    <<"examiner", "details", mn, "sections", "ANSWER KEY">>

\* lines 1218-1312
_simple_competitive(exam, subject, mn) ==
    LET subj_l == LowerStr(subject)
    IN  IF exam = "NTSE"
        THEN IF \/ IsSub(Chars("mat"), subj_l)
                \/ IsSub(Chars("mental"), subj_l)
                \/ IsSub(Chars("reasoning"), subj_l)
             THEN <<"NTSE MAT", "details", "sections", "ANSWER KEY">>
             ELSE <<"NTSE SAT", "details", mn, "SECTION DISTRIBUTION", "ANSWER KEY">>
        ELSE IF exam \in {"NSO", "IMO"}
        THEN <<exam, "details", mn, "STRUCTURE", "sections", "ANSWER KEY">>
        ELSE <<"IJSO", "details", mn, "STRUCTURE", "ANSWER KEY">>

\* lines 1047-1050: the first key of comp_map, in its order, that the
\* lower-cased board holds, or "none"
CompExam(board) ==
    LET board_l == LowerStr(board)
    IN  IF IsSub(Chars("ntse"), board_l) THEN "NTSE"
        ELSE IF IsSub(Chars("nso"), board_l) THEN "NSO"
        ELSE IF IsSub(Chars("imo"), board_l) THEN "IMO"
        ELSE IF IsSub(Chars("ijso"), board_l) THEN "IJSO"
        ELSE "none"

\* lines 1024-1057
build_prompt ==
    /\ bp_pc = "start"
    /\ LET a    == bp_args
           m    == EffectiveTotal(a.marks)
           cls  == IF a.class_name = <<>> THEN Chars("10") ELSE a.class_name
           mn   == math_notation(a.subject)
           exam == CompExam(a.board)
       IN  /\ bp_m' = m
           /\ IF exam # "none"
              THEN /\ bp_template' = exam
                   /\ bp_prompt' = _simple_competitive(exam, a.subject, mn)
              ELSE IF cls_n(cls) >= 9
              THEN /\ bp_template' = "state board"
                   /\ bp_prompt' = StateBoardPrompt(m, mn)
              ELSE /\ bp_template' = "lower class"
                   /\ bp_prompt' = _simple_lower_class(mn)
    /\ bp_pc' = "done"
    /\ UNCHANGED bp_args
    /\ UNCHANGED nonBp

\* the marks arguments: the strings generate passes, and numbers
BpMarks ==
    {JStr(s) : s \in {Chars("0"), Chars("5"), Chars("9"), Chars("10"), Chars("11"),
                      Chars("100"), Chars("-5"), Chars("abc"), Chars("7.5"), <<>>}}
    \cup {JNum(n) : n \in {-5, 0, 9, 40}}

BpSubjects ==
    {Chars("Mathematics"), Chars("Maths"), Chars("Science"), Chars("Physics"),
     Chars("Chemistry"), Chars("Biology"), Chars("Algebra"), Chars("Geometry"),
     Chars("Trigonometry"), Chars("Statistics"), Chars("PHYSICS"),
     Chars("English"), Chars("Mental Ability"), <<>>}

BpBoards ==
    {Chars("AP State Board"), Chars("CBSE"), Chars("NTSE"), Chars("NSO"),
     Chars("IMO"), Chars("IJSO"), Chars("ntse stage 1"), <<>>}

BpClasses == {Chars("10"), Chars("Class 9"), Chars("7"), <<>>}

InitBp ==
    /\ bp_args \in [marks : BpMarks, subject : BpSubjects, board : BpBoards,
                    class_name : BpClasses]
    /\ bp_m = 0
    /\ bp_template = "none"
    /\ bp_prompt = <<>>
    /\ bp_pc = "start"
    /\ IdleLLM /\ IdleSplit /\ IdleStruct /\ IdleProc /\ IdlePdf /\ IdleDl /\ IdleGen

NextBp == build_prompt

SpecBp == InitBp /\ [][NextBp]_vars

\* the number the marks argument states: a string of an optional minus sign
\* and digits, or a number
StatesNumber(x) ==
    \/ x.t = "int"
    \/ x.t = "str" /\ IsDigitStr(x.s)
    \/ x.t = "str" /\ x.s # <<>> /\ x.s[1] = "-" /\ IsDigitStr(Tail(x.s))

NumberStated(x) ==
    IF x.t = "int" THEN x.n
    ELSE IF IsDigitStr(x.s) THEN DigitsVal(x.s)
    ELSE 0 - DigitsVal(Tail(x.s))

\* C15: the effective total of build_prompt is never below 10, and a marks
\* value below 10 (0, a positive number under 10, a negative number) is
\* replaced by exactly 10.
C15_BelowMinimumBecomesMinimum ==
    bp_pc = "done" =>
        /\ bp_m >= MinTotal
        /\ (StatesNumber(bp_args.marks) /\ NumberStated(bp_args.marks) < MinTotal)
               => bp_m = MinTotal

\* the subject is a STEM subject: its lower-cased name holds one of the
\* nine words
StemSubject ==
    \E k \in {Chars("math"), Chars("science"), Chars("physics"), Chars("chemistry"),
              Chars("biology"), Chars("algebra"), Chars("geometry"),
              Chars("trigonometry"), Chars("statistics")} :
        IsSub(k, LowerStr(bp_args.subject))

\* C16: for a STEM subject the prompt holds the math-notation block, whichever
\* template is chosen (state board, lower class, NTSE, NSO, IMO, IJSO).
C16_StemPromptHasMathNotation ==
    (bp_pc = "done" /\ StemSubject) => MathNotation \in Range(bp_prompt)

(***************************************************************************)
(* Claims about the LLM client                                             *)
(***************************************************************************)
\* an attempt that succeeded with a non-empty response
Succeeded(e) == e.outcome # "raised" /\ Strip(e.text) # <<>>

\* the message call_gemini records for a failed or empty attempt
MessageOf(e) ==
    IF e.outcome = "raised" THEN ExcMsg(e.model, e.attempt, e.err)
    ELSE EmptyMsg(e.model)

\* the attempts are made in candidate-list order, on the listed models
InListOrder(r) ==
    /\ \A i \in 1..Len(r.log) :
          /\ r.log[i].cand \in 1..Len(r.models_to_try)
          /\ r.log[i].model = r.models_to_try[r.log[i].cand]
    /\ \A i, j \in 1..Len(r.log) : i < j => r.log[i].cand <= r.log[j].cand
    /\ r.log # <<>> =>
          \A c \in 1..r.log[Len(r.log)].cand : \E i \in 1..Len(r.log) : r.log[i].cand = c

\* C1: given a non-empty candidate list, call_gemini returns (text, None) with
\* the non-empty stripped text of the first attempt, in candidate-list order,
\* that succeeds with a non-empty response, and makes no attempt after it; if
\* every candidate is exhausted without one it returns (None, e), e the message
\* recorded for the last failed or empty attempt.
C1_FirstSuccessOrLastError ==
    \A t \in 1..NWorkers :
        LET r == th[t]
            n == Len(r.log)
        IN  (r.caller = "call_gemini" /\ r.models_to_try # <<>>) =>
              /\ InListOrder(r)
              /\ \A i \in 1..n : Succeeded(r.log[i]) => (i = n /\ r.pc = "done")
              /\ (r.pc = "done" /\ ~r.result.none) =>
                    /\ n > 0
                    /\ Succeeded(r.log[n])
                    /\ r.result.text = Strip(r.log[n].text)
                    /\ r.result.text # <<>>
                    /\ r.result.errNone
              /\ (r.pc = "done" /\ r.result.none) =>
                    /\ n > 0
                    /\ r.log[n].cand = Len(r.models_to_try)
                    /\ \A i \in 1..n : ~Succeeded(r.log[i])
                    /\ ~r.result.errNone
                    /\ r.result.error = MessageOf(r.log[n])

\* a call that returned the text of its second candidate after the first failed
C1_Witness ==
    \E t \in 1..NWorkers :
        /\ th[t].pc = "done" /\ ~th[t].result.none
        /\ Len(th[t].log) >= 2
        /\ th[t].log[Len(th[t].log)].cand = 2

\* the markers of a rate-limit or not-found error
HasMarker(err) ==
    \E i \in 1..Len(err) : err[i] \in {"429", "404", "quota", "Quota", "QUOTA"}

\* C2: every candidate is attempted at most twice and never revisited; an
\* error with a rate-limit or not-found marker ends the candidate at once; any
\* other error on the first attempt is followed by exactly one retry of the
\* same candidate; the attempts of one call number at most 2 x candidates.
C2_TwoAttemptsPerModel ==
    \A t \in 1..NWorkers :
        LET r == th[t]
            log == r.log
            n == Len(log)
        IN  r.caller = "call_gemini" =>
              /\ \A c \in 1..Len(r.models_to_try) :
                    Cardinality({i \in 1..n : log[i].cand = c}) <= 2
              /\ \A i, j \in 1..n : i < j => log[i].cand <= log[j].cand
              /\ \A i, j \in 1..n :
                    (i < j /\ log[i].outcome = "raised" /\ HasMarker(log[i].err))
                        => log[j].cand # log[i].cand
              /\ \A i \in 1..n :
                    (/\ log[i].outcome = "raised" /\ ~HasMarker(log[i].err)
                     /\ \A k \in 1..(i - 1) : log[k].cand # log[i].cand)
                    => IF i < n
                       THEN /\ log[i + 1].cand = log[i].cand
                            /\ \A k \in (i + 2)..n : log[k].cand # log[i].cand
                       ELSE r.pc = "loop" /\ r.mi = log[i].cand
              /\ n <= 2 * Len(r.models_to_try)

\* a call that retried its first candidate once, then was rate-limited on the
\* second and went on to the third
C2_Witness ==
    \E t \in 1..NWorkers :
        LET log == th[t].log
        IN  /\ Len(log) >= 4
            /\ log[1].cand = 1 /\ log[1].outcome = "raised" /\ ~HasMarker(log[1].err)
            /\ log[2].cand = 1
            /\ log[3].cand = 2 /\ log[3].outcome = "raised" /\ HasMarker(log[3].err)
            /\ log[4].cand = 3

\* C3: the remote list-models call is made at most once and the global
\* _discovered_models is assigned at most once, whatever the calls of
\* discover_models and their interleaving.
C3_WriteOnce == listCalls <= 1 /\ assignCount <= 1

\* the thread t is leaving discover_models after list_models returned
ListSucceeded(t) == th[t].pc = "assign" /\ th'[t].pc # "assign"

\* C30: after a successful list-models call every candidate discover_models
\* returns is a name the call reported with generateContent among its
\* methods (th[t].models), and no candidate is returned twice.
C30_CandidatesWereReported ==
    [][\A t \in 1..NWorkers :
          ListSucceeded(t) =>
              /\ Range(_discovered_models') \subseteq Range(th[t].models)
              /\ \A i, j \in 1..Len(_discovered_models') :
                    _discovered_models'[i] = _discovered_models'[j] => i = j]_vars


=============================================================================
